---- MODULE Spec2Model ----
(***************************************************************************)
(* Model of the BCN techno bot: the upstream client and the ingestion of   *)
(* scraper.py (fetch_events_from_api, transform_and_save_events), the      *)
(* events and alerts tables of database.py with the search by date, the    *)
(* notifier of bot.py that sends the alerts and flips the notified flag,   *)
(* the loop of scheduler.py, and the conversations and the paged listings  *)
(* of bot.py.                                                              *)
(*                                                                         *)
(* Python values are modelled as follows.  A string is a TLA+ string.      *)
(* None (and SQL NULL) is the string NULL, a key absent from a dict is the *)
(* string MISSING.  A list-valued key is a record [k, v] whose k says      *)
(* whether the key holds a list ("list"), None (NULL) or is absent         *)
(* (MISSING) and whose v is the list.  The optional integer 'attending'    *)
(* is a record [has, n].                                                   *)
(***************************************************************************)
EXTENDS Integers, Sequences, FiniteSets, TLC

VARIABLES
    events,   \* the committed rows of table events, in rowid order
    now,      \* the clock: the latest CURRENT_TIMESTAMP, the day of date('now', 'localtime')
    run,      \* run[r]: the state of ingestion process r (one call of transform_and_save_events)
    npc,      \* position of the notifier job check_and_notify: "idle", "loop" or "send"
    nq,       \* the events the notifier still has to handle in this job (as it read them)
    fetch,    \* the state of the scraper process: fetch_events_from_api and its caller
    alerts,   \* the rows of table alerts, in rowid order
    nusers,   \* users_to_notify for the current event: all of them, and those not yet sent to
    sends,    \* every send the notifier has attempted, in order
    qry,      \* the bot's search and the message that shows its page
    aseq,     \* sqlite_sequence of table alerts: the largest id the table has ever given
    sched,    \* the scheduler process: its loop and the invocations of job()
    conv      \* the bot's conversations: both handlers and user_data of each user

vars == <<events, now, run, npc, nq, fetch, alerts, nusers, sends, qry, aseq, sched, conv>>

\* ---------------------------------------------------------------- bounds

MaxBatch == 2        \* longest batch handed to a sequential ingestion run
MaxConcBatch == 2    \* longest batch handed to a run that has a concurrent peer
MaxClock == 1        \* CURRENT_TIMESTAMP takes the values 0..MaxClock
MaxNormBatch == 2    \* longest batch of a run that exercises the field rules
MaxAlertBatch == 1   \* longest batch of a run whose events the notifier announces
MaxAlerts == 2       \* most calls of add_alert
MaxSends == 2        \* most sends the notifier attempts
MaxQueryBatch == 3   \* longest batch ingested into the store the bot searches
MaxLimit == 2        \* largest limit of a search
MaxOffset == 1       \* largest offset of a search
MaxPage == 2         \* the pages of one fetch whose items the model keeps
MaxJobs == 3         \* most invocations of job() the scheduler makes
MaxSchedClock == 9   \* the clock of the scheduler takes the values 0..MaxSchedClock
MaxFindAlerts == 2   \* most calls of add_alert before the notifier looks for users
MaxTyped == 3        \* most names users send to the alerts conversation
MaxListed == 8       \* most events of the store whose listing the bot pages through
MaxPageLen == 2      \* most items on one page

\* ------------------------------------------------------ values and strings

NULL == "NULL"
MISSING == "MISSING"

BASE_URL == "https://ra.co"
IMAGES_URL == "https://images.ra.co/"
ARTISTS_SENTINEL == "Artistas por confirmar"
CLUB_SENTINEL == "TBA"

Digits == {"0", "1", "2", "3", "4", "5", "6", "7", "8", "9"}

DigitVal(c) ==
    CASE c = "0" -> 0 [] c = "1" -> 1 [] c = "2" -> 2 [] c = "3" -> 3 [] c = "4" -> 4
      [] c = "5" -> 5 [] c = "6" -> 6 [] c = "7" -> 7 [] c = "8" -> 8 [] OTHER -> 9

DigitChar(n) ==
    CASE n = 0 -> "0" [] n = 1 -> "1" [] n = 2 -> "2" [] n = 3 -> "3" [] n = 4 -> "4"
      [] n = 5 -> "5" [] n = 6 -> "6" [] n = 7 -> "7" [] n = 8 -> "8" [] OTHER -> "9"

Ch(s, i) == SubSeq(s, i, i)

AllDigits(s) == \A i \in 1..Len(s) : Ch(s, i) \in Digits

RECURSIVE Num(_)
Num(s) == IF Len(s) = 0 THEN 0
          ELSE 10 * Num(SubSeq(s, 1, Len(s) - 1)) + DigitVal(Ch(s, Len(s)))

\* n written in decimal on w digits, zero padded (what strftime does for %Y, %m, %d, %H, %M)
RECURSIVE Pad(_, _)
Pad(n, w) == IF w = 0 THEN "" ELSE Pad(n \div 10, w - 1) \o DigitChar(n % 10)

\* str(n) for n >= 0, as an f-string writes it
RECURSIVE Str(_)
Str(n) == IF n < 10 THEN DigitChar(n) ELSE Str(n \div 10) \o DigitChar(n % 10)

\* str.replace('Z', '+00:00')
RECURSIVE ReplaceZ(_)
ReplaceZ(s) ==
    IF Len(s) = 0 THEN ""
    ELSE (IF Ch(s, 1) = "Z" THEN "+00:00" ELSE Ch(s, 1)) \o ReplaceZ(SubSeq(s, 2, Len(s)))

IsLeap(y) == (y % 4 = 0 /\ y % 100 # 0) \/ y % 400 = 0

DaysIn(y, m) ==
    IF m = 2 THEN (IF IsLeap(y) THEN 29 ELSE 28)
    ELSE IF m \in {4, 6, 9, 11} THEN 30 ELSE 31

\* a UTC offset +HH:MM or -HH:MM, or nothing
IsOffset(s) ==
    \/ Len(s) = 0
    \/ /\ Len(s) = 6
       /\ Ch(s, 1) \in {"+", "-"}
       /\ AllDigits(SubSeq(s, 2, 3)) /\ Ch(s, 4) = ":" /\ AllDigits(SubSeq(s, 5, 6))
       /\ Num(SubSeq(s, 2, 3)) < 24 /\ Num(SubSeq(s, 5, 6)) < 60

\* what may follow HH:MM in an ISO time: [:SS[.fff]] and then an offset
IsSecondsAndOffset(s) ==
    \/ IsOffset(s)
    \/ /\ Len(s) >= 3 /\ Ch(s, 1) = ":" /\ AllDigits(SubSeq(s, 2, 3))
       /\ Num(SubSeq(s, 2, 3)) < 60
       /\ \/ IsOffset(SubSeq(s, 4, Len(s)))
          \/ /\ Len(s) >= 7 /\ Ch(s, 4) = "." /\ AllDigits(SubSeq(s, 5, 7))
             /\ IsOffset(SubSeq(s, 8, Len(s)))

IsIsoDate(s) ==
    /\ Len(s) >= 10
    /\ AllDigits(SubSeq(s, 1, 4)) /\ Ch(s, 5) = "-"
    /\ AllDigits(SubSeq(s, 6, 7)) /\ Ch(s, 8) = "-"
    /\ AllDigits(SubSeq(s, 9, 10))
    /\ Num(SubSeq(s, 1, 4)) >= 1
    /\ Num(SubSeq(s, 6, 7)) \in 1..12
    /\ Num(SubSeq(s, 9, 10)) \in 1..DaysIn(Num(SubSeq(s, 1, 4)), Num(SubSeq(s, 6, 7)))

IsIsoTime(s) ==
    /\ Len(s) >= 5
    /\ AllDigits(SubSeq(s, 1, 2)) /\ Ch(s, 3) = ":" /\ AllDigits(SubSeq(s, 4, 5))
    /\ Num(SubSeq(s, 1, 2)) < 24 /\ Num(SubSeq(s, 4, 5)) < 60
    /\ IsSecondsAndOffset(SubSeq(s, 6, Len(s)))

\* datetime.fromisoformat(s): YYYY-MM-DD, optionally one separator character and a time
IsIso(s) ==
    /\ IsIsoDate(s)
    /\ (Len(s) > 10 => IsIsoTime(SubSeq(s, 12, Len(s))))

\* the datetime object fromisoformat returns (the fields the program reads)
FromIso(s) ==
    [year   |-> Num(SubSeq(s, 1, 4)),
     month  |-> Num(SubSeq(s, 6, 7)),
     day    |-> Num(SubSeq(s, 9, 10)),
     hour   |-> IF Len(s) > 10 THEN Num(SubSeq(s, 12, 13)) ELSE 0,
     minute |-> IF Len(s) > 10 THEN Num(SubSeq(s, 15, 16)) ELSE 0]

\* strftime('%Y-%m-%d') and strftime('%H:%M')
StrfDate(dt) == Pad(dt.year, 4) \o "-" \o Pad(dt.month, 2) \o "-" \o Pad(dt.day, 2)
StrfTime(dt) == Pad(dt.hour, 2) \o ":" \o Pad(dt.minute, 2)

\* datetime.fromisoformat(event[key].replace('Z', '+00:00')) raises when the key is
\* absent (KeyError), None (AttributeError) or not ISO-8601 (ValueError)
TimestampOk(v) == v # MISSING /\ v # NULL /\ IsIso(ReplaceZ(v))
ParseTimestamp(v) == FromIso(ReplaceZ(v))

\* Python truthiness of a string-or-None value
Truthy(v) == v # MISSING /\ v # NULL /\ v # ""

RECURSIVE TruthyNames(_)
TruthyNames(list) ==
    IF list = <<>> THEN <<>>
    ELSE (IF Truthy(Head(list)) THEN <<Head(list)>> ELSE <<>>) \o TruthyNames(Tail(list))

\* ", ".join(list)
RECURSIVE Join(_)
Join(list) ==
    IF list = <<>> THEN ""
    ELSE IF Len(list) = 1 THEN list[1]
    ELSE list[1] \o ", " \o Join(Tail(list))

UPPER == "ABCDEFGHIJKLMNOPQRSTUVWXYZ"
LOWER == "abcdefghijklmnopqrstuvwxyz"

\* str.lower() of one character (ASCII; SQLite's LIKE folds the same letters)
LowerChar(c) ==
    IF \E i \in 1..26 : Ch(UPPER, i) = c
    THEN Ch(LOWER, CHOOSE i \in 1..26 : Ch(UPPER, i) = c)
    ELSE c

\* str.lower()
RECURSIVE Lower(_)
Lower(s) == IF Len(s) = 0 THEN "" ELSE LowerChar(Ch(s, 1)) \o Lower(SubSeq(s, 2, Len(s)))

\* str.strip(): the blanks at both ends removed
RECURSIVE Strip(_)
Strip(s) ==
    IF Len(s) = 0 THEN ""
    ELSE IF Ch(s, 1) = " " THEN Strip(SubSeq(s, 2, Len(s)))
    ELSE IF Ch(s, Len(s)) = " " THEN Strip(SubSeq(s, 1, Len(s) - 1))
    ELSE s

\* str.split(','): the pieces between the commas, at least one piece
RECURSIVE Split(_)
Split(s) ==
    IF \A i \in 1..Len(s) : Ch(s, i) # "," THEN <<s>>
    ELSE LET c == CHOOSE i \in 1..Len(s) : Ch(s, i) = "," /\ \A j \in 1..(i - 1) : Ch(s, j) # ","
         IN  <<SubSeq(s, 1, c - 1)>> \o Split(SubSeq(s, c + 1, Len(s)))

\* text LIKE pattern in SQLite: % stands for any run of characters, _ for any one
\* character, ASCII letters match whatever their case
RECURSIVE Like(_, _)
Like(text, pattern) ==
    IF Len(pattern) = 0 THEN Len(text) = 0
    ELSE IF Ch(pattern, 1) = "%"
         THEN \/ Like(text, SubSeq(pattern, 2, Len(pattern)))
              \/ Len(text) > 0 /\ Like(SubSeq(text, 2, Len(text)), pattern)
    ELSE /\ Len(text) > 0
         /\ Ch(pattern, 1) = "_" \/ LowerChar(Ch(pattern, 1)) = LowerChar(Ch(text, 1))
         /\ Like(SubSeq(text, 2, Len(text)), SubSeq(pattern, 2, Len(pattern)))

\* ------------------------------------------------------------ normalizer

\* item.get('event', {}) is falsy: the key is absent, None or an empty dict
EventFalsy(item) == item.ev \in {MISSING, NULL, "{}"}

\* the value of 'event' is a dict (otherwise it is a truthy value of another type:
\* a non-empty string, a list, a number)
EventIsDict(item) == item.ev = "dict"

\* [artist['name'] for artist in event.get('artists', []) if artist.get('name')]
ArtistsList(e) == IF e.artists.k = MISSING THEN <<>> ELSE TruthyNames(e.artists.v)

\* mutant of ArtistsText: the join without the fallback
ArtistsNoSentinel(e) == Join(ArtistsList(e))

\* ", ".join(artists_list) or "Artistas por confirmar"
ArtistsText(e) ==
    IF Join(ArtistsList(e)) = "" THEN ARTISTS_SENTINEL ELSE Join(ArtistsList(e))

\* images_list[0].get('filename', '') prefixed by the image host, '' without an image
FlyerImage(e) ==
    IF e.images.k # "list" \/ e.images.v = <<>> THEN ""
    ELSE IF Truthy(e.images.v[1]) THEN IMAGES_URL \o e.images.v[1] ELSE ""

\* "https://ra.co" + event.get('contentUrl', '')
SourceLink(e) == BASE_URL \o (IF e.contentUrl = MISSING THEN "" ELSE e.contentUrl)

\* event.get('venue', {}).get('name', 'TBA')
ClubName(e) ==
    IF e.venue.k = MISSING THEN CLUB_SENTINEL
    ELSE IF e.venue.name = MISSING THEN CLUB_SENTINEL
    ELSE e.venue.name

\* event.get('title')
EventName(e) == IF e.title = MISSING THEN NULL ELSE e.title

\* event.get('attending', 0)
AttendingCount(e) == IF e.attending.has THEN e.attending.n ELSE 0

\* no statement of lines 77-110 raises for this event dict
NormalizeOk(e) ==
    /\ TimestampOk(e.date)
    /\ TimestampOk(e.startTime)
    /\ TimestampOk(e.endTime)
    /\ e.artists.k # NULL          \* iterating None raises TypeError
    /\ e.contentUrl # NULL         \* str + None raises TypeError
    /\ e.venue.k # NULL            \* None.get raises AttributeError

\* update_data, for an event dict for which NormalizeOk holds
Draft(e) ==
    [event_name      |-> EventName(e),
     club_name       |-> ClubName(e),
     event_date      |-> StrfDate(ParseTimestamp(e.date)),
     start_time      |-> StrfTime(ParseTimestamp(e.startTime)),
     end_time        |-> StrfTime(ParseTimestamp(e.endTime)),
     artists         |-> ArtistsText(e),
     attending_count |-> AttendingCount(e),
     buy_link        |-> SourceLink(e),
     flyer_image     |-> FlyerImage(e),
     source_link     |-> SourceLink(e)]

\* -------------------------------------------------------- the events table

\* mutant of SelectBySourceLink: the lookup has no WHERE clause
SelectAnyRow(table, link) == table # <<>>

\* SELECT id FROM events WHERE source_link = ?  followed by fetchone(): a row or None
SelectBySourceLink(table, link) == \E i \in 1..Len(table) : table[i].source_link = link

\* the NOT NULL constraints of the table that a draft can break: event_name
\* (event_date and source_link are always strings)
NotNullOk(d) == d.event_name # NULL

\* mutant of UniqueOk: the column is declared without UNIQUE
NoUniqueConstraint(table, link) == TRUE

\* source_link TEXT UNIQUE NOT NULL: no row may already hold the link
UniqueOk(table, link) == \A i \in 1..Len(table) : table[i].source_link # link

\* id INTEGER PRIMARY KEY AUTOINCREMENT: one more than the largest id ever used
\* (rows are never deleted and a rollback restores the sequence)
NextId(table) == Len(table) + 1

\* the row INSERT creates: the ten listed columns from the draft, the defaults for the rest
NewRow(table, d, t) ==
    [id              |-> NextId(table),
     event_name      |-> d.event_name,
     club_name       |-> d.club_name,
     event_date      |-> d.event_date,
     start_time      |-> d.start_time,
     end_time        |-> d.end_time,
     artists         |-> d.artists,
     attending_count |-> d.attending_count,
     buy_link        |-> d.buy_link,
     source_link     |-> d.source_link,
     flyer_image     |-> d.flyer_image,
     notified        |-> 0,
     date_added      |-> t]

\* mutant of UpdatedRow: the SET clause also resets notified
UpdatedRowResetNotified(row, d) ==
    [row EXCEPT !.event_name      = d.event_name,
                !.club_name       = d.club_name,
                !.event_date      = d.event_date,
                !.start_time      = d.start_time,
                !.end_time        = d.end_time,
                !.artists         = d.artists,
                !.attending_count = d.attending_count,
                !.buy_link        = d.buy_link,
                !.flyer_image     = d.flyer_image,
                !.notified        = 0]

\* mutant of UpdatedRow: the SET clause forgets attending_count and flyer_image
UpdatedRowPartial(row, d) ==
    [row EXCEPT !.event_name      = d.event_name,
                !.club_name       = d.club_name,
                !.event_date      = d.event_date,
                !.start_time      = d.start_time,
                !.end_time        = d.end_time,
                !.artists         = d.artists,
                !.buy_link        = d.buy_link]

\* the SET clause of the UPDATE applied to one row
UpdatedRow(row, d) ==
    [row EXCEPT !.event_name      = d.event_name,
                !.club_name       = d.club_name,
                !.event_date      = d.event_date,
                !.start_time      = d.start_time,
                !.end_time        = d.end_time,
                !.artists         = d.artists,
                !.attending_count = d.attending_count,
                !.buy_link        = d.buy_link,
                !.flyer_image     = d.flyer_image]

\* mutant of UpdateBySourceLink: the UPDATE has no WHERE clause
UpdateAllRows(table, d) == [i \in 1..Len(table) |-> UpdatedRow(table[i], d)]

\* mutant of UpdateBySourceLink: the upsert is an INSERT OR REPLACE, which deletes the
\* stored row and inserts a new one (new id, notified back to its default)
ReplaceBySourceLink(table, d) ==
    IF ~SelectBySourceLink(table, d.source_link) THEN table
    ELSE LET old  == CHOOSE i \in 1..Len(table) : table[i].source_link = d.source_link
             keep == SelectSeq(table, LAMBDA row : row.source_link # d.source_link)
         IN  Append(keep, [UpdatedRow(table[old], d) EXCEPT
                               !.id = table[Len(table)].id + 1, !.notified = 0])

\* UPDATE events SET ... WHERE source_link = :source_link
UpdateBySourceLink(table, d) ==
    [i \in 1..Len(table) |->
        IF table[i].source_link = d.source_link THEN UpdatedRow(table[i], d) ELSE table[i]]

\* cursor.rowcount after the UPDATE: the rows the WHERE clause matched
UpdateRowCount(table, d) ==
    Cardinality({i \in 1..Len(table) : table[i].source_link = d.source_link})

\* The outcome of cursor.execute(update_query): ok = no exception; the table after the
\* statement (a failing statement changes nothing); rowcount.
ExecUpdate(table, d) ==
    IF SelectBySourceLink(table, d.source_link) /\ ~NotNullOk(d)
    THEN [ok |-> FALSE, table |-> table, rowcount |-> 0]
    ELSE [ok |-> TRUE, table |-> UpdateBySourceLink(table, d),
          rowcount |-> UpdateRowCount(table, d)]

\* The outcome of cursor.execute(insert_query)
ExecInsert(table, d, t) ==
    IF ~NotNullOk(d) \/ ~UniqueOk(table, d.source_link)
    THEN [ok |-> FALSE, table |-> table, rowcount |-> 0]
    ELSE [ok |-> TRUE, table |-> Append(table, NewRow(table, d, t)), rowcount |-> 1]

\* mutant of MarkNotified: the announced event is removed from the table
MarkNotifiedDeletes(table, id) == SelectSeq(table, LAMBDA row : row.id # id)

\* UPDATE events SET notified = 1 WHERE id = ?
MarkNotified(table, id) ==
    [i \in 1..Len(table) |->
        IF table[i].id = id THEN [table[i] EXCEPT !.notified = 1] ELSE table[i]]

\* get_unnotified_events: SELECT * FROM events WHERE notified = 0, the rows as dicts
\* in rowid order
Unnotified(table) == SelectSeq(table, LAMBDA row : row.notified = 0)

\* ------------------------------------------------------------- raw items

NoList == [k |-> "list", v |-> <<>>]

\* the item of the spec's scenario: {title: X, date = startTime, endTime the next
\* morning, venue Y, no artists, no images, contentUrl /events/1}
BaseItem ==
    [ev         |-> "dict",
     title      |-> "X",
     date       |-> "2025-10-01T22:00:00Z",
     startTime  |-> "2025-10-01T22:00:00Z",
     endTime    |-> "2025-10-02T06:00:00Z",
     venue      |-> [k |-> "dict", name |-> "Y"],
     artists    |-> NoList,
     images     |-> NoList,
     attending  |-> [has |-> FALSE, n |-> 0],
     contentUrl |-> "/events/1"]

\* the same event after upstream changed most of it
ChangedItem ==
    [BaseItem EXCEPT !.title = "X2",
                     !.date = "2025-10-03T00:00:00.000",
                     !.startTime = "2025-10-03T23:30:00.000",
                     !.endTime = "2025-10-04T05:00:00+02:00",
                     !.venue = [k |-> MISSING, name |-> MISSING],
                     !.attending = [has |-> TRUE, n |-> 50],
                     !.artists = [k |-> "list", v |-> <<"Ana", "", "Bo">>],
                     !.images = [k |-> "list", v |-> <<"f.jpg">>]]

\* another event
OtherItem == [BaseItem EXCEPT !.title = "W", !.contentUrl = "/events/2"]

\* an event whose date field is not a date (month 13)
BadDateItem ==
    [BaseItem EXCEPT !.title = "B", !.date = "2025-13-01T22:00:00Z", !.contentUrl = "/events/2"]

\* an event without title: it normalizes, and the table refuses it (event_name NOT NULL)
NoTitleItem == [BaseItem EXCEPT !.title = MISSING]

\* an item without event
EmptyItem == [BaseItem EXCEPT !.ev = NULL]

\* an item whose 'event' is a non-empty string
StringItem == [BaseItem EXCEPT !.ev = "str"]

\* an event whose artist entries all lack a name (an empty name, a null name, no name
\* key) and whose venue has no name key
NamelessItem ==
    [BaseItem EXCEPT !.title = "N",
                     !.artists = [k |-> "list", v |-> <<"", NULL, MISSING>>],
                     !.venue = [k |-> "dict", name |-> MISSING]]

\* an event whose venue is null and that has no artists key
NullVenueItem ==
    [BaseItem EXCEPT !.title = "V",
                     !.artists = [k |-> MISSING, v |-> <<>>],
                     !.venue = [k |-> NULL, name |-> MISSING]]

\* an event whose venue has a null name
NullClubItem == [BaseItem EXCEPT !.title = "C", !.venue = [k |-> "dict", name |-> NULL]]

\* an event whose artists field is null
NullArtistsItem == [BaseItem EXCEPT !.title = "A", !.artists = [k |-> NULL, v |-> <<>>]]

\* an event listed under one calendar date that starts after midnight, on the next
DateSplitItem ==
    [BaseItem EXCEPT !.title = "D",
                     !.date = "2025-10-01T00:00:00.000",
                     !.startTime = "2025-10-02T00:30:00.000",
                     !.endTime = "2025-10-02T06:00:00.000"]

\* event n of the listing of September 2025, on the given day at the given time
QueryItem(n, day, time) ==
    [BaseItem EXCEPT !.title = "Q" \o n,
                     !.date = "2025-09-" \o day \o "T00:00:00.000",
                     !.startTime = "2025-09-" \o day \o "T" \o time \o ":00.000",
                     !.endTime = "2025-09-" \o day \o "T23:59:00.000",
                     !.contentUrl = "/events/" \o n]

\* the items ingested into the store the bot searches by date: two events on one day
\* at one time, an earlier one on that day, one on a later day
QueryItems ==
    {QueryItem("1", "05", "23:00"), QueryItem("2", "05", "23:00"),
     QueryItem("3", "05", "21:00"), QueryItem("4", "07", "22:00")}

\* event k of the listing the bot pages through: the days and the times alternate, so
\* that the order of the listing is not the order of the table
ListedItem(k) ==
    QueryItem(Str(k), IF k % 4 = 1 THEN "05" ELSE "07", IF k % 2 = 0 THEN "21:00" ELSE "23:00")

ListedItems == {ListedItem(k) : k \in 1..MaxListed}

\* the items of the runs that exercise the field rules of the normalizer
NormItems ==
    {BaseItem, ChangedItem, NamelessItem, NullVenueItem, NullClubItem,
     NullArtistsItem, DateSplitItem}

Items ==
    {BaseItem, ChangedItem, OtherItem, BadDateItem, NoTitleItem,
     EmptyItem, StringItem}

\* the items of the runs that have a concurrent peer
ConcItems == {BaseItem, OtherItem}

\* lines 77-110 applied to each item whose event is a dict: whether they raise, and
\* update_data when they do not
AllItems == Items \cup NormItems \cup QueryItems \cup ListedItems

Normalized ==
    [item \in AllItems |->
        IF NormalizeOk(item) THEN [ok |-> TRUE, draft |-> Draft(item)]
        ELSE [ok |-> FALSE, draft |-> <<>>]]

SeqsUpTo(S, n) == UNION {[1..k -> S] : k \in 0..n}

Batches == SeqsUpTo(Items, MaxBatch)
ConcBatches == SeqsUpTo(ConcItems, MaxConcBatch)
NormBatches == SeqsUpTo(NormItems, MaxNormBatch)
QueryBatches == SeqsUpTo(QueryItems, MaxQueryBatch)

\* the reconciliation of a batch of items that all yield a draft the table accepts:
\* each in turn is looked up, then updated or inserted
RECURSIVE Reconciled(_, _, _)
Reconciled(table, outcomes, items) ==
    IF items = <<>> THEN [table |-> table, outcomes |-> outcomes]
    ELSE LET d == Normalized[Head(items)].draft
         IN  IF SelectBySourceLink(table, d.source_link)
             THEN Reconciled(ExecUpdate(table, d).table, Append(outcomes, "updated"),
                             Tail(items))
             ELSE Reconciled(ExecInsert(table, d, 0).table, Append(outcomes, "inserted"),
                             Tail(items))

\* the stores the bot searches: what ingestion leaves of an empty store after it has
\* reconciled a batch of the September listing
QueryStores == {Reconciled(<<>>, <<>>, b).table : b \in QueryBatches}

\* the stores the bot pages through: what ingestion leaves of an empty store after it
\* has reconciled the first events of the listing
ListedStores ==
    {Reconciled(<<>>, <<>>, [i \in 1..k |-> ListedItem(i)]).table : k \in 0..MaxListed}

\* the items of the runs whose events the notifier announces: one event with artists
\* and no club, another with a club and no artists
AlertItems == {ChangedItem, OtherItem}
AlertBatches == SeqsUpTo(AlertItems, MaxAlertBatch)

\* ------------------------------------------------------- the alerts table

\* the chats that use the bot, and what they type as alerts
Chats == {1, 2}
AlertInputs == {[type |-> "artist", value |-> "Ana"], [type |-> "club", value |-> "y"]}

\* what users type as alerts, the characters % and _ among them
FindInputs ==
    AlertInputs \cup {[type |-> "artist", value |-> "A_a"], [type |-> "artist", value |-> "Zed"],
                      [type |-> "club", value |-> "%"]}

\* mutant of AddedAlert: the value is stored as it was typed
AddedAlertAsTyped(table, seq, chat, type, value) ==
    IF \E i \in 1..Len(table) :
          /\ table[i].chat_id = chat
          /\ table[i].alert_type = type
          /\ table[i].alert_value = value
    THEN table
    ELSE Append(table, [id |-> seq + 1, chat_id |-> chat, alert_type |-> type,
                        alert_value |-> value])

\* add_alert, the INSERT OR IGNORE of line 240: the value is stored in lower case, and
\* a row that repeats (chat_id, alert_type, alert_value) is not added.  seq is the
\* largest id the table has given: AUTOINCREMENT gives the next one
AddedAlert(table, seq, chat, type, value) ==
    IF \E i \in 1..Len(table) :
          /\ table[i].chat_id = chat
          /\ table[i].alert_type = type
          /\ table[i].alert_value = Lower(value)
    THEN table
    ELSE Append(table, [id |-> seq + 1, chat_id |-> chat, alert_type |-> type,
                        alert_value |-> Lower(value)])

\* the id is drawn before the UNIQUE constraint is checked: an INSERT that is ignored
\* uses up an id as well
NextAlertSeq(seq) == seq + 1

\* lines 287 and 297 of find_users_for_new_event: the lower-cased club name, and the
\* lower-cased, stripped pieces of the artists text that are not empty
SearchKeys(club_name, artists) ==
    LET pieces == Split(IF artists = NULL THEN "" ELSE artists)
    IN  [club    |-> Lower(IF club_name = NULL THEN "" ELSE club_name),
         artists |-> {Lower(Strip(pieces[k])) : k \in 1..Len(pieces)} \ {""}]

\* SearchKeys of every club name and artists text a stored event can have
StoredKeys ==
    [d \in {[club_name |-> Normalized[item].draft.club_name,
             artists   |-> Normalized[item].draft.artists] :
                item \in {i \in AllItems : Normalized[i].ok}} |->
        SearchKeys(d.club_name, d.artists)]

\* ? LIKE '%' || alert_value || '%', for every text the notifier looks up and every
\* alert value stored
Contained ==
    [text \in UNION {{StoredKeys[d].club} \cup StoredKeys[d].artists : d \in DOMAIN StoredKeys},
     value \in {Lower(input.value) : input \in AlertInputs \cup FindInputs} |->
        Like(text, "%" \o value \o "%")]

\* SELECT chat_id FROM alerts WHERE alert_type = type AND text LIKE '%' || alert_value || '%'
AlertChats(table, type, text) ==
    {table[i].chat_id :
        i \in {j \in 1..Len(table) :
                  table[j].alert_type = type /\ Contained[text, table[j].alert_value]}}

\* find_users_for_new_event(event): the chats with a club alert or an artist alert
\* that matches the event
FindUsers(table, event) ==
    LET keys == StoredKeys[[club_name |-> event.club_name, artists |-> event.artists]]
    IN  (IF keys.club = "" THEN {} ELSE AlertChats(table, "club", keys.club))
            \cup UNION {AlertChats(table, "artist", a) : a \in keys.artists}

\* the alerts table after the calls of add_alert in adds, each a pair <<chat, input>>
RECURSIVE AlertsAfter(_)
AlertsAfter(adds) ==
    IF adds = <<>> THEN [table |-> <<>>, seq |-> 0]
    ELSE LET before == AlertsAfter(SubSeq(adds, 1, Len(adds) - 1))
             add    == adds[Len(adds)]
         IN  [table |-> AddedAlert(before.table, before.seq, add[1], add[2].type, add[2].value),
              seq   |-> NextAlertSeq(before.seq)]

FindAdds == SeqsUpTo(Chats \X FindInputs, MaxFindAlerts)

\* the stores the notifier reads: what ingestion leaves of an empty store after a batch
\* of the events it announces
FindStores == {Reconciled(<<>>, <<>>, b).table : b \in SeqsUpTo(AlertItems, Cardinality(AlertItems))}

\* ------------------------------------------------------- search by date

\* the characters of dates and times, in the order of their codes: SQLite compares
\* TEXT values byte by byte
CharOrder == " -0123456789:"

CharCode(c) == CHOOSE i \in 1..Len(CharOrder) : Ch(CharOrder, i) = c

\* a < b for two TEXT values
RECURSIVE TextLess(_, _)
TextLess(a, b) ==
    IF Len(b) = 0 THEN FALSE
    ELSE IF Len(a) = 0 THEN TRUE
    ELSE IF Ch(a, 1) = Ch(b, 1) THEN TextLess(SubSeq(a, 2, Len(a)), SubSeq(b, 2, Len(b)))
    ELSE CharCode(Ch(a, 1)) < CharCode(Ch(b, 1))

\* the number of events of one page of results
EVENTS_PER_PAGE == 5

\* what users send when the bot asks for a date
DateTexts ==
    {"2025-09-05", "2025-09-07", "2025-09-06", "2025-9-5", "2025-09- 5",
     "2025-02-30", "05-09-2025", "2025-09-05-1", "hola"}

\* the pieces of s between its hyphens, at least one piece
RECURSIVE SplitHyphen(_)
SplitHyphen(s) ==
    IF \A i \in 1..Len(s) : Ch(s, i) # "-" THEN <<s>>
    ELSE LET c == CHOOSE i \in 1..Len(s) : Ch(s, i) = "-" /\ \A j \in 1..(i - 1) : Ch(s, j) # "-"
         IN  <<SubSeq(s, 1, c - 1)>> \o SplitHyphen(SubSeq(s, c + 1, Len(s)))

\* what strptime takes for %Y, %m and %d: \d\d\d\d, 1[0-2]|0[1-9]|[1-9] and
\* 3[01]|[12]\d|0[1-9]|[1-9]| [1-9]
MatchesYear(s) == Len(s) = 4 /\ AllDigits(s)

MatchesMonth(s) ==
    \/ Len(s) = 2 /\ Ch(s, 1) = "1" /\ Ch(s, 2) \in {"0", "1", "2"}
    \/ Len(s) = 2 /\ Ch(s, 1) = "0" /\ Ch(s, 2) \in Digits \ {"0"}
    \/ Len(s) = 1 /\ s \in Digits \ {"0"}

MatchesDay(s) ==
    \/ Len(s) = 2 /\ Ch(s, 1) = "3" /\ Ch(s, 2) \in {"0", "1"}
    \/ Len(s) = 2 /\ Ch(s, 1) \in {"1", "2"} /\ Ch(s, 2) \in Digits
    \/ Len(s) = 2 /\ Ch(s, 1) \in {"0", " "} /\ Ch(s, 2) \in Digits \ {"0"}
    \/ Len(s) = 1 /\ s \in Digits \ {"0"}

\* datetime.strptime(s, '%Y-%m-%d') returns: the whole of s matches the three
\* expressions with hyphens between them, and the numbers make a date
StrptimeReturns(s) ==
    LET piece == SplitHyphen(s)
    IN  /\ Len(piece) = 3
        /\ MatchesYear(piece[1]) /\ MatchesMonth(piece[2]) /\ MatchesDay(piece[3])
        /\ Num(piece[1]) >= 1
        /\ Num(Strip(piece[3])) <= DaysIn(Num(piece[1]), Num(piece[2]))

\* StrptimeReturns for what users send
Strptime == [s \in DateTexts |-> StrptimeReturns(s)]

\* date('now', 'localtime') when the clock reads n: the clock counts the days from the
\* 5th of September 2025
Today(n) == "2025-09-" \o Pad(5 + n, 2)

\* the (start_date, end_date) pairs the bot searches with
QueryRanges ==
    {<<"2025-09-01", "2025-09-10">>, <<"2025-09-08", "2025-09-10">>,
     <<"2025-09-01", "2025-09-04">>, <<"2025-09-05", "2025-09-07">>,
     <<"2025-09-05", "2025-09-05">>, <<"2025-09-07", "2025-09-05">>}

\* TextLess for the dates and times of the stored events and of the searches
Before ==
    [a, b \in {Normalized[item].draft.event_date : item \in QueryItems}
                \cup {Normalized[item].draft.start_time : item \in QueryItems}
                \cup {range[1] : range \in QueryRanges}
                \cup {range[2] : range \in QueryRanges}
                \cup {s \in DateTexts : Strptime[s]}
                \cup {Today(n) : n \in 0..MaxClock} |->
        TextLess(a, b)]

\* mutant of Between: both ends of the range are excluded
BetweenExclusive(v, lo, hi) == Before[lo, v] /\ Before[v, hi]

\* v BETWEEN lo AND hi, which is v >= lo AND v <= hi
Between(v, lo, hi) == ~Before[v, lo] /\ ~Before[hi, v]

\* the rows of WHERE event_date BETWEEN ? AND ?
InWindow(table, start, end) ==
    SelectSeq(table, LAMBDA row : Between(row.event_date, start, end))

\* ORDER BY event_date ASC, start_time ASC puts row a before row b, or leaves their
\* order open
MayPrecede(a, b) ==
    \/ Before[a.event_date, b.event_date]
    \/ a.event_date = b.event_date /\ ~Before[b.start_time, a.start_time]

\* the orders in which the ORDER BY can deliver rows: rows with equal event_date and
\* start_time come in any order
Orderings(rows) ==
    {[i \in 1..Len(rows) |-> rows[p[i]]] :
        p \in {q \in Permutations(1..Len(rows)) :
                  \A i, j \in 1..Len(rows) : i < j => MayPrecede(rows[q[i]], rows[q[j]])}}

\* mutant of Limited: the offset is taken for a page number
LimitedByPage(rows, limit, offset) ==
    SubSeq(rows, offset * limit + 1,
           IF offset * limit + limit < Len(rows) THEN offset * limit + limit ELSE Len(rows))

\* LIMIT ? OFFSET ? (neither negative)
Limited(rows, limit, offset) ==
    SubSeq(rows, offset + 1, IF offset + limit < Len(rows) THEN offset + limit ELSE Len(rows))

\* the bot before any search
IdleQuery ==
    [pc     |-> "idle",     \* "idle", "counted" (line 172 has run), "done" (line 184)
     start  |-> "", end |-> "", limit |-> 0, offset |-> 0,   \* the arguments
     total  |-> 0,          \* total_events
     rows   |-> <<>>,       \* events
     buttons |-> {},        \* the keyboard of the message that shows the page
     seen   |-> <<>>,       \* the ids shown since the page at offset 0
     chain  |-> FALSE,      \* the page was reached from offset 0 by Siguiente only
     day    |-> 0]          \* the clock when the page at offset 0 was shown

\* ------------------------------------------------------------- paging

\* the pieces of s between its underscores, at least one piece
RECURSIVE SplitUnderscore(_)
SplitUnderscore(s) ==
    IF \A i \in 1..Len(s) : Ch(s, i) # "_" THEN <<s>>
    ELSE LET c == CHOOSE i \in 1..Len(s) : Ch(s, i) = "_" /\ \A j \in 1..(i - 1) : Ch(s, j) # "_"
         IN  <<SubSeq(s, 1, c - 1)>> \o SplitUnderscore(SubSeq(s, c + 1, Len(s)))

\* row a comes before row b in ORDER BY event_date ASC, start_time ASC
RowLess(a, b) ==
    \/ Before[a.event_date, b.event_date]
    \/ a.event_date = b.event_date /\ Before[a.start_time, b.start_time]

\* the rows as SQLite delivers them for the ORDER BY with a LIMIT: sorted, rows that
\* compare equal in the order of the table
RECURSIVE Sorted(_)
Sorted(rows) ==
    IF rows = <<>> THEN <<>>
    ELSE LET front == Sorted(SubSeq(rows, 1, Len(rows) - 1))
             last  == rows[Len(rows)]
             k     == Cardinality({i \in 1..Len(front) : ~RowLess(last, front[i])})
         IN  SubSeq(front, 1, k) \o <<last>> \o SubSeq(front, k + 1, Len(front))

\* the rows of WHERE event_date >= date('now', 'localtime')
Upcoming(table, today) == SelectSeq(table, LAMBDA row : ~Before[row.event_date, today])

\* the sorted rows of each listing of each store the bot pages through
UpcomingSorted ==
    [table \in ListedStores \cup QueryStores, n \in 0..MaxClock |->
        Sorted(Upcoming(table, Today(n)))]

DatedSorted ==
    [table \in ListedStores \cup QueryStores,
     start \in {s \in DateTexts : Strptime[s]}, end \in {s \in DateTexts : Strptime[s]} |->
        Sorted(InWindow(table, start, end))]

\* get_upcoming_events(limit, offset), lines 99-111
GetUpcomingEvents(table, n, limit, offset) ==
    [rows  |-> Limited(UpcomingSorted[table, n], limit, offset),
     total |-> Len(UpcomingSorted[table, n])]

\* search_events_by_date(start, end, limit, offset), lines 167-184
SearchEventsByDate(table, start, end, limit, offset) ==
    [rows  |-> Limited(DatedSorted[table, start, end], limit, offset),
     total |-> Len(DatedSorted[table, start, end])]

\* a button of the keyboard: its label, the offset it leads to and its callback_data
Button(label, base, target) ==
    [label |-> label, target |-> target, data |-> base \o "_" \o Str(target)]

\* format_events_message, lines 106-110 and 146-159: the keyboard; no keyboard when
\* there are no events
FormatEventsMessage(rows, total, offset, base) ==
    IF rows = <<>> THEN {}
    ELSE {Button("Anterior", base,
                 IF offset - EVENTS_PER_PAGE < 0 THEN 0 ELSE offset - EVENTS_PER_PAGE) :
              x \in {y \in {1} : offset > 0}}
         \cup {Button("Siguiente", base, offset + EVENTS_PER_PAGE) :
                  x \in {y \in {1} : offset + EVENTS_PER_PAGE < total}}

\* the ids of rows
Ids(rows) == [i \in 1..Len(rows) |-> rows[i].id]

\* the message that shows a page: res is what the search returned
Page(base, start, end, offset, res, seen, chain, day) ==
    [pc |-> "done", start |-> start, end |-> end, limit |-> EVENTS_PER_PAGE,
     offset |-> offset, total |-> res.total, rows |-> res.rows,
     buttons |-> FormatEventsMessage(res.rows, res.total, offset, base),
     seen |-> seen, chain |-> chain, day |-> day]

\* ---------------------------------------------------------- ingestion run

Runs == {1, 2}

\* a process that is not running transform_and_save_events and never ran it
IdleRun ==
    [pc       |-> "idle",     \* "idle", "loop" (top of the for loop), "write" (line 112),
                              \* "done" (the call has ended, its caller has not)
     batch    |-> <<>>,       \* the argument events
     idx      |-> 1,          \* the position of the for loop in batch
     existing |-> FALSE,      \* existing_event is not None
     txn      |-> FALSE,      \* the connection holds the write lock (an open transaction)
     view     |-> <<>>,       \* the table as the open transaction sees it
     new      |-> 0,          \* new_events_count
     upd      |-> 0,          \* updated_events_count
     proc     |-> 0,          \* processed_count
     outcomes |-> <<>>,       \* per item of batch[1..idx-1], what became of it
     status   |-> "none",     \* how the call ended: "none" (it has not), "returned", "raised"
     ret      |-> 0,          \* the value the call returned
     start    |-> <<>>,       \* the committed table when the call began
     after    |-> <<>>,       \* the committed table when the call (before it, the previous call) ended
     rerun    |-> FALSE,      \* the call repeats the batch of the previous call, nothing in between
     twice    |-> FALSE]      \* the call was such a repetition and nothing came in between

\* lines 64-68: connect, zero the counters
BeginRun(old, b, committed) ==
    [IdleRun EXCEPT !.pc = "loop", !.batch = b, !.start = committed, !.after = old.after,
                    !.rerun = (old.pc = "done" /\ old.batch = b /\ old.after = committed)]

\* the table the connection of r reads: its own uncommitted writes once it has written
Seen(r) == IF run[r].txn THEN run[r].view ELSE events

\* no other connection holds the write lock
LockFree(r) == \A q \in Runs \ {r} : ~run[q].txn

\* `continue` (line 73 and, in the except clause, line 148): on to the next item
Continue(rn, outcome) ==
    [rn EXCEPT !.idx = @ + 1, !.pc = "loop", !.existing = FALSE,
               !.outcomes = Append(@, outcome)]

\* mutant of ExceptClause: the except clause ends the loop (break for continue)
ExceptBreak(rn) == [Continue(rn, "skipped-error") EXCEPT !.idx = Len(rn.batch) + 1]

\* lines 146-148: the except clause of an item whose event is a dict
ExceptClause(rn) == Continue(rn, "skipped-error")

\* an exception leaves the function: the connection is dropped without commit,
\* which rolls its transaction back
Escape(rn, committed) ==
    [rn EXCEPT !.pc = "done", !.existing = FALSE, !.txn = FALSE, !.view = <<>>,
               !.status = "raised", !.ret = 0, !.after = committed,
               !.twice = (rn.rerun /\ rn.after = committed)]

\* lines 71-110 for the current item, reading table tab
SelectStep(rn, tab, committed) ==
    LET item == rn.batch[rn.idx]
        counted == [rn EXCEPT !.proc = @ + 1]
    IN  IF EventFalsy(item) THEN Continue(rn, "ignored")
        ELSE IF ~EventIsDict(item)
             \* event['date'] raises TypeError, and in the except clause
             \* event.get('title') raises AttributeError
             THEN Escape(counted, committed)
        ELSE IF ~Normalized[item].ok THEN ExceptClause(counted)
        ELSE [counted EXCEPT !.pc = "write",
                             !.existing = SelectBySourceLink(tab, Normalized[item].draft.source_link)]

\* mutant of StatementAborted: the failed statement rolls the whole transaction back
TransactionRolledBack(tab, committed) == committed

\* what a failed statement leaves of the open transaction: SQLite undoes the
\* statement alone, the earlier writes of the transaction stay
StatementAborted(tab, committed) == tab

\* lines 112-143 for the current item: the UPDATE or the INSERT on table tab
WriteStep(rn, tab, committed, t) ==
    LET d   == Normalized[rn.batch[rn.idx]].draft
        res == IF rn.existing THEN ExecUpdate(tab, d) ELSE ExecInsert(tab, d, t)
        held == [rn EXCEPT !.txn = TRUE]
    IN  IF ~res.ok
        THEN ExceptClause([held EXCEPT !.view = StatementAborted(tab, committed)])
        ELSE IF rn.existing
        THEN Continue([held EXCEPT !.view = res.table,
                                   !.upd = IF res.rowcount > 0 THEN @ + 1 ELSE @],
                      "updated")
        ELSE Continue([held EXCEPT !.view = res.table,
                                   !.new = IF res.rowcount > 0 THEN @ + 1 ELSE @],
                      "inserted")

\* lines 150-157: commit, close, return new_events_count
ReturnStep(rn, committed) ==
    [rn EXCEPT !.pc = "done", !.txn = FALSE, !.view = <<>>, !.status = "returned",
               !.ret = rn.new, !.after = IF rn.txn THEN rn.view ELSE committed,
               !.twice = (rn.rerun /\ rn.after = committed)]

\* ------------------------------------------------------ upstream client

\* what one requests.post of line 34 can end in.  kind "page": status 200 and a JSON
\* body whose data.eventListings.data is the list items (an empty list at the end of
\* the data).  The other kinds, per statement of lines 34-41:
\*   "timeout"    requests.Timeout after 30 seconds             (line 34)
\*   "transport"  requests.ConnectionError                      (line 34)
\*   "status"     raise_for_status() raises HTTPError           (line 35)
\*   "notjson"    response.json() raises                        (line 36)
\*   "errors"     the body has an 'errors' field; it may carry items as well (line 37)
\*   "nulldata"   the body is {"data": null}: None.get raises AttributeError (line 41)
FatalKinds == {"timeout", "transport", "status", "notjson", "errors", "nulldata"}

FetchItems == {BaseItem, OtherItem}

\* a page of the listing: up to MaxPageLen events, none listed twice within the
\* page (the same event may come back on a later page)
Pages ==
    {p \in SeqsUpTo(FetchItems, MaxPageLen) :
        \A i, j \in 1..Len(p) : p[i] = p[j] => i = j}

Responses ==
    {[kind |-> "page", items |-> p] : p \in Pages}
        \cup {[kind |-> k, items |-> <<>>] : k \in FatalKinds}
        \cup {[kind |-> "errors", items |-> p] : p \in Pages}

\* the scraper process before fetch_events_from_api is called
IdleFetch ==
    [pc     |-> "idle",    \* "idle", "request" (line 31), "sleep" (line 49), "done" (the
                           \* fetch has returned, line 167), "save" (line 169)
     page   |-> 1,         \* page_number
     all    |-> <<>>,      \* all_events_in_range
     over   |-> FALSE,     \* more than MaxPage pages held items: page and all are no
                           \* longer kept, the loop goes on
     log    |-> <<>>,      \* the requests and the pauses of this call, in order
     ended  |-> "none",    \* the kind of the response that ended the loop
     status |-> "none",    \* how the call ended: "none" (it has not), "returned", "raised"
     ret    |-> <<>>]      \* the list the call returned

\* lines 28-29
BeginFetch == [IdleFetch EXCEPT !.pc = "request"]

LogRequest(page, resp) == [op |-> "req", page |-> page, kind |-> resp.kind, items |-> resp.items]
LogSleep == [op |-> "sleep", page |-> 0, kind |-> "none", items |-> <<>>]

\* mutant of NextPage: every other page is skipped
NextPageSkips(page) == page + 2

\* line 48: page_number += 1
NextPage(page) == page + 1

\* mutant of Accumulated: the page is put in front of the list
AccumulatedInFront(all, items) == items \o all

\* line 47: all_events_in_range.extend(events_page)
Accumulated(all, items) == all \o items

\* mutant of AfterPage: the loop asks for the next page at once
AfterPageNoSleep == "request"

\* lines 48-49: after a page that held items, the pause of line 49 comes before the
\* next turn of the loop
AfterPage == "sleep"

\* mutant of KeptAtBreak: a fetch that ends in an error returns nothing
DroppedAtBreak(all) == <<>>

\* lines 39, 44, 52, 55 and 57: break leaves the loop with the list as it is, and the
\* list is returned
KeptAtBreak(all) == all

\* the response is read as the end of the data: line 42, `not events_page`
EndOfData(resp) == resp.kind = "page" /\ resp.items = <<>>

\* lines 31-55 for one turn of the loop that got response resp
Paginate(f, resp) ==
    LET logged == IF f.over THEN f
                  ELSE [f EXCEPT !.log = Append(@, LogRequest(f.page, resp))]
    IN  IF resp.kind \in FatalKinds \/ EndOfData(resp)
        THEN [logged EXCEPT !.pc = "done", !.ended = resp.kind, !.status = "returned",
                            !.ret = KeptAtBreak(f.all)]
        ELSE IF f.over \/ f.page > MaxPage
        THEN [f EXCEPT !.pc = AfterPage, !.over = TRUE]
        ELSE [logged EXCEPT !.pc = AfterPage, !.all = Accumulated(@, resp.items),
                            !.page = NextPage(@)]

\* line 49: time.sleep(1)
Slept(f) ==
    IF f.over THEN [f EXCEPT !.pc = "request"]
    ELSE [f EXCEPT !.pc = "request", !.log = Append(@, LogSleep)]

\* ----------------------------------------------------------------- actions

StartRun(r) ==
    /\ run[r].pc = "idle"
    /\ \E b \in Batches : run' = [run EXCEPT ![r] = BeginRun(run[r], b, events)]
    /\ UNCHANGED <<events, now, npc, nq, fetch, alerts, nusers, sends, qry, aseq, sched, conv>>

StartConcRun(r) ==
    /\ run[r].pc = "idle"
    /\ \E b \in ConcBatches : run' = [run EXCEPT ![r] = BeginRun(run[r], b, events)]
    /\ UNCHANGED <<events, now, npc, nq, fetch, alerts, nusers, sends, qry, aseq, sched, conv>>

StartNormRun(r) ==
    /\ run[r].pc = "idle"
    /\ \E b \in NormBatches : run' = [run EXCEPT ![r] = BeginRun(run[r], b, events)]
    /\ UNCHANGED <<events, now, npc, nq, fetch, alerts, nusers, sends, qry, aseq, sched, conv>>

StartAlertRun(r) ==
    /\ run[r].pc = "idle"
    /\ \E b \in AlertBatches : run' = [run EXCEPT ![r] = BeginRun(run[r], b, events)]
    /\ UNCHANGED <<events, now, npc, nq, fetch, alerts, nusers, sends, qry, aseq, sched, conv>>

\* the caller calls transform_and_save_events again with the same events
Rerun(r) ==
    /\ run[r].pc = "done"
    /\ run' = [run EXCEPT ![r] = BeginRun(run[r], run[r].batch, events)]
    /\ UNCHANGED <<events, now, npc, nq, fetch, alerts, nusers, sends, qry, aseq, sched, conv>>

\* the caller of transform_and_save_events ends (the process exits)
Finish(r) ==
    /\ run[r].pc = "done"
    /\ run' = [run EXCEPT ![r] = IdleRun]
    /\ UNCHANGED <<events, now, npc, nq, fetch, alerts, nusers, sends, qry, aseq, sched, conv>>

Select(r) ==
    /\ run[r].pc = "loop"
    /\ run[r].idx <= Len(run[r].batch)
    /\ run' = [run EXCEPT ![r] = SelectStep(run[r], Seen(r), events)]
    /\ UNCHANGED <<events, now, npc, nq, fetch, alerts, nusers, sends, qry, aseq, sched, conv>>

\* mutant of Write: the connection is in autocommit mode, each write is committed as
\* it is made
WriteAutocommit(r) ==
    /\ run[r].pc = "write"
    /\ LockFree(r)
    /\ \E t \in now..MaxClock :
         /\ run[r].existing => t = now
         /\ run' = [run EXCEPT ![r] = WriteStep(run[r], Seen(r), events, t)]
         /\ events' = WriteStep(run[r], Seen(r), events, t).view
         /\ now' = t
    /\ UNCHANGED <<npc, nq, fetch, alerts, nusers, sends, qry, aseq, sched, conv>>

\* the write statement gets the write lock (at once or after waiting for it); an
\* INSERT reads the clock, which has not gone back since it was last read
Write(r) ==
    /\ run[r].pc = "write"
    /\ LockFree(r)
    /\ \E t \in now..MaxClock :
         /\ run[r].existing => t = now
         /\ run' = [run EXCEPT ![r] = WriteStep(run[r], Seen(r), events, t)]
         /\ now' = t
    /\ UNCHANGED <<events, npc, nq, fetch, alerts, nusers, sends, qry, aseq, sched, conv>>

\* the write statement waits for the lock of another connection until the busy
\* timeout: sqlite3.OperationalError (database is locked), caught at line 146
WriteBusy(r) ==
    /\ run[r].pc = "write"
    /\ ~LockFree(r)
    /\ run' = [run EXCEPT ![r] = ExceptClause(run[r])]
    /\ UNCHANGED <<events, now, npc, nq, fetch, alerts, nusers, sends, qry, aseq, sched, conv>>

Commit(r) ==
    /\ run[r].pc = "loop"
    /\ run[r].idx > Len(run[r].batch)
    /\ events' = IF run[r].txn THEN run[r].view ELSE events
    /\ run' = [run EXCEPT ![r] = ReturnStep(run[r], events)]
    /\ UNCHANGED <<now, npc, nq, fetch, alerts, nusers, sends, qry, aseq, sched, conv>>

\* the bot process: a user adds an alert (received_artist_alert, received_club_alert)
AddAlert ==
    /\ aseq < MaxAlerts
    /\ \A q \in Runs : ~run[q].txn      \* or the INSERT ends in `database is locked`
    /\ \E chat \in Chats, input \in AlertInputs :
          alerts' = AddedAlert(alerts, aseq, chat, input.type, input.value)
    /\ aseq' = NextAlertSeq(aseq)
    /\ UNCHANGED <<events, now, run, npc, nq, fetch, nusers, sends, qry, sched, conv>>

\* users_to_notify before the notifier has looked for the users of an event
NoUsers == [all |-> {}, left |-> {}]

\* check_and_notify, line 563: get_unnotified_events()
NotifyStart ==
    /\ npc = "idle"
    /\ npc' = "loop"
    /\ nq' = Unnotified(events)
    /\ nusers' = NoUsers
    /\ UNCHANGED <<events, now, run, fetch, alerts, sends, qry, aseq, sched, conv>>

\* lines 568-583: the event has users to notify, the message is built
NotifyFind ==
    /\ npc = "loop"
    /\ nq # <<>>
    /\ FindUsers(alerts, Head(nq)) # {}
    /\ npc' = "send"
    /\ nusers' = [all |-> FindUsers(alerts, Head(nq)), left |-> FindUsers(alerts, Head(nq))]
    /\ UNCHANGED <<events, now, run, nq, fetch, alerts, sends, qry, aseq, sched, conv>>

\* lines 585-602: one turn of the loop over users_to_notify; the send succeeds, or
\* raises and the exception is logged
NotifySend ==
    /\ npc = "send"
    /\ nusers.left # {}
    /\ Len(sends) < MaxSends
    /\ \E chat \in nusers.left, ok \in BOOLEAN :
          /\ sends' = Append(sends, [event |-> Head(nq).id, chat |-> chat, ok |-> ok])
          /\ nusers' = [nusers EXCEPT !.left = @ \ {chat}]
    /\ UNCHANGED <<events, now, run, npc, nq, fetch, alerts, qry, aseq, sched, conv>>

\* lines 585-602 as NotifySend, the attempt not entered in sends
NotifySendQuiet ==
    /\ npc = "send"
    /\ nusers.left # {}
    /\ \E chat \in nusers.left : nusers' = [nusers EXCEPT !.left = @ \ {chat}]
    /\ UNCHANGED <<events, now, run, npc, nq, fetch, alerts, sends, qry, aseq, sched, conv>>

\* the notifier is at line 605: the event has no users to notify, or the loop over
\* them has ended
AtMark ==
    \/ npc = "loop" /\ nq # <<>> /\ FindUsers(alerts, Head(nq)) = {}
    \/ npc = "send" /\ nusers.left = {}

\* line 605: mark_event_as_notified(event['id']), and on to the next event
NotifyMark ==
    /\ AtMark
    /\ \A q \in Runs : ~run[q].txn
    /\ events' = MarkNotified(events, Head(nq).id)
    /\ nq' = Tail(nq)
    /\ npc' = "loop"
    /\ nusers' = NoUsers
    /\ UNCHANGED <<now, run, fetch, alerts, sends, qry, aseq, sched, conv>>

\* mark_event_as_notified waits for the write lock of an ingestion run until the
\* busy timeout: the OperationalError ends the job
NotifyBusy ==
    /\ AtMark
    /\ \E q \in Runs : run[q].txn
    /\ npc' = "idle"
    /\ nq' = <<>>
    /\ nusers' = NoUsers
    /\ UNCHANGED <<events, now, run, fetch, alerts, sends, qry, aseq, sched, conv>>

NotifyEnd ==
    /\ npc = "loop"
    /\ nq = <<>>
    /\ npc' = "idle"
    /\ UNCHANGED <<events, now, run, nq, fetch, alerts, nusers, sends, qry, aseq, sched, conv>>

\* search_events_by_date, lines 167-172: the count
QueryCount ==
    /\ qry.pc # "counted"
    /\ \E range \in QueryRanges, limit \in 1..MaxLimit, offset \in 0..MaxOffset :
          qry' = [IdleQuery EXCEPT !.pc = "counted", !.start = range[1], !.end = range[2],
                                   !.limit = limit, !.offset = offset,
                                   !.total = Len(InWindow(events, range[1], range[2]))]
    /\ UNCHANGED <<events, now, run, npc, nq, fetch, alerts, nusers, sends, aseq, sched, conv>>

\* search_events_by_date, lines 175-184: the page of rows
QuerySelect ==
    /\ qry.pc = "counted"
    /\ \E rows \in Orderings(InWindow(events, qry.start, qry.end)) :
          qry' = [qry EXCEPT !.pc = "done", !.rows = Limited(rows, qry.limit, qry.offset)]
    /\ UNCHANGED <<events, now, run, npc, nq, fetch, alerts, nusers, sends, aseq, sched, conv>>

\* scraper.py run as a program, lines 161-166: fetch_events_from_api is called
FetchStart ==
    /\ fetch.pc = "idle"
    /\ run[1].pc = "idle"
    /\ fetch' = BeginFetch
    /\ UNCHANGED <<events, now, run, npc, nq, alerts, nusers, sends, qry, aseq, sched, conv>>

\* one turn of the while loop of fetch_events_from_api up to the pause: the request
\* of line 34 gets one of the responses upstream can give
Request ==
    /\ fetch.pc = "request"
    /\ \E resp \in Responses : fetch' = Paginate(fetch, resp)
    /\ UNCHANGED <<events, now, run, npc, nq, alerts, nusers, sends, qry, aseq, sched, conv>>

Sleep ==
    /\ fetch.pc = "sleep"
    /\ fetch' = Slept(fetch)
    /\ UNCHANGED <<events, now, run, npc, nq, alerts, nusers, sends, qry, aseq, sched, conv>>

\* lines 167-169: the fetch returned events, transform_and_save_events is called with
\* them (a fetch of more than MaxPage pages is followed no further)
MainSave ==
    /\ fetch.pc = "done"
    /\ fetch.ret # <<>>
    /\ ~fetch.over
    /\ fetch' = [fetch EXCEPT !.pc = "save", !.log = <<>>]
    /\ run' = [run EXCEPT ![1] = BeginRun(run[1], fetch.ret, events)]
    /\ UNCHANGED <<events, now, npc, nq, alerts, nusers, sends, qry, aseq, sched, conv>>

\* lines 167 and 170: the fetch returned no event, the program ends
MainSkip ==
    /\ fetch.pc = "done"
    /\ fetch.ret = <<>>
    /\ fetch' = IdleFetch
    /\ UNCHANGED <<events, now, run, npc, nq, alerts, nusers, sends, qry, aseq, sched, conv>>

\* line 170: transform_and_save_events has ended, the program ends
MainEnd ==
    /\ fetch.pc = "save"
    /\ run[1].pc = "done"
    /\ fetch' = IdleFetch
    /\ run' = [run EXCEPT ![1] = IdleRun]
    /\ UNCHANGED <<events, now, npc, nq, alerts, nusers, sends, qry, aseq, sched, conv>>

\* ------------------------------------------------------------ scheduler

\* schedule.every(2).hours: the time from the end of one run of the job to the moment
\* the next is due, in ticks of the scheduler's clock
Interval == 2

\* an invocation of job(): where it is ("scrape", line 8; "save", line 10; "end", line
\* 12; "done", it has returned) and when it began and ended
BegunJob(t) == [pc |-> "scrape", begun |-> t, ended |-> t]

\* the scheduler process at line 18, the job registered by line 15
IdleSched ==
    [pc    |-> "pending",   \* "pending" (line 19), "job" (inside the call job() that
                            \* run_pending made), "sleep" (line 20)
     clock |-> 0,           \* the time
     next  |-> Interval,    \* next_run of the job
     jobs  |-> <<>>]        \* the invocations of job(), in the order they began

\* the job is due: schedule's should_run
Due(s) == s.clock >= s.next

\* mutant of CallJob: the job is handed to a thread, run_pending returns at once
CallJobInThread == "sleep"

\* run_pending calls the job function and returns when it has returned: the loop is
\* inside the call
CallJob == "job"

\* lines 19: schedule.run_pending()
RunPending(s) ==
    IF Due(s)
    THEN [s EXCEPT !.pc = CallJob, !.jobs = Append(@, BegunJob(s.clock))]
    ELSE [s EXCEPT !.pc = "sleep"]

\* the invocations of job() that have begun and not returned
Running(s) == {i \in 1..Len(s.jobs) : s.jobs[i].pc # "done"}

\* job() returns (line 12): schedule sets next_run from the time the run ended, and
\* run_pending returns to the loop
JobReturned(s, i) ==
    [s EXCEPT !.jobs[i].pc = "done", !.jobs[i].ended = s.clock,
              !.next = IF s.pc = "job" THEN s.clock + Interval ELSE @,
              !.pc = IF s.pc = "job" THEN "sleep" ELSE @]

\* --------------------------------------------------------- conversations

\* the texts users send as names
TypedNames == {"Ana", "aNA", "y"}

\* what the bot holds for one user: the state of the search conversation, the state of
\* the alerts conversation ("END": the user is not in it) and context.user_data, whose
\* only key is search_type (MISSING: the dict is empty)
IdleChat == [search |-> "END", alert |-> "END", search_type |-> MISSING]

\* no update has been handled yet
NoUpdate == [op |-> "none", user |-> 0, name |-> "", id |-> 0, before |-> <<>>]

IdleConv == [st |-> [u \in Chats |-> IdleChat], last |-> NoUpdate]

\* the update a handler has just handled: the handler, the user, the text or the alert
\* id the update carried, and the alerts table when the handler began
Handled(op, u, name, id) == [op |-> op, user |-> u, name |-> name, id |-> id, before |-> alerts]

\* the states in which a conversation takes a text message that is not a command
SearchTakesText(c) == c.search \in {"TYPING_SEARCH", "TYPING_CUSTOM_DATE"}
AlertTakesText(c) == c.alert \in {"ADDING_ARTIST", "ADDING_CLUB"}

\* /cancel, lines 379-385 as registered by lines 637 and 654: the handlers of a group
\* are tried in the order they were added and the first that takes the update is the
\* only one to run; the search conversation was added first (line 662)
Cancelled(c) ==
    IF c.search # "END"
    THEN [c EXCEPT !.search = "END", !.search_type = MISSING]
    ELSE [c EXCEPT !.alert = "END", !.search_type = MISSING]

\* delete_alert, line 269: DELETE FROM alerts WHERE id = ?
Deleted(table, id) == SelectSeq(table, LAMBDA row : row.id # id)

\* line 19
SchedRunPending ==
    /\ sched.pc = "pending"
    /\ Due(sched) => Len(sched.jobs) < MaxJobs
    /\ sched' = RunPending(sched)
    /\ UNCHANGED <<events, now, run, npc, nq, fetch, alerts, nusers, sends, qry, aseq, conv>>

\* line 20: time.sleep(1)
SchedSleep ==
    /\ sched.pc = "sleep"
    /\ sched.clock < MaxSchedClock
    /\ sched' = [sched EXCEPT !.pc = "pending", !.clock = @ + 1]
    /\ UNCHANGED <<events, now, run, npc, nq, fetch, alerts, nusers, sends, qry, aseq, conv>>

\* time passes while a job runs
JobTick ==
    /\ Running(sched) # {}
    /\ sched.clock < MaxSchedClock
    /\ sched' = [sched EXCEPT !.clock = @ + 1]
    /\ UNCHANGED <<events, now, run, npc, nq, fetch, alerts, nusers, sends, qry, aseq, conv>>

\* lines 8-9: scrape_ra_events() returns events, or none
JobScrape ==
    /\ \E i \in Running(sched), found \in BOOLEAN :
          /\ sched.jobs[i].pc = "scrape"
          /\ sched' = [sched EXCEPT !.jobs[i].pc = IF found THEN "save" ELSE "end"]
    /\ UNCHANGED <<events, now, run, npc, nq, fetch, alerts, nusers, sends, qry, aseq, conv>>

\* line 10: save_events_to_db(events)
JobSave ==
    /\ \E i \in Running(sched) :
          /\ sched.jobs[i].pc = "save"
          /\ sched' = [sched EXCEPT !.jobs[i].pc = "end"]
    /\ UNCHANGED <<events, now, run, npc, nq, fetch, alerts, nusers, sends, qry, aseq, conv>>

\* line 12
JobEnd ==
    /\ \E i \in Running(sched) :
          /\ sched.jobs[i].pc = "end"
          /\ sched' = JobReturned(sched, i)
    /\ UNCHANGED <<events, now, run, npc, nq, fetch, alerts, nusers, sends, qry, aseq, conv>>

\* /buscar, lines 217-232 (entry point: taken only outside the conversation)
BuscarStart(u) ==
    /\ conv.st[u].search = "END"
    /\ conv' = [st |-> [conv.st EXCEPT ![u].search = "CHOOSING_SEARCH"],
                last |-> Handled("buscar_start", u, "", 0)]
    /\ UNCHANGED <<events, now, run, npc, nq, fetch, alerts, nusers, sends, qry, aseq, sched>>

\* lines 235-246: the button search_by_artist or search_by_club
AskForSearchTerm(u) ==
    /\ conv.st[u].search = "CHOOSING_SEARCH"
    /\ \E type \in {"artist", "club"} :
          conv' = [st |-> [conv.st EXCEPT ![u].search = "TYPING_SEARCH",
                                          ![u].search_type = type],
                   last |-> Handled("ask_for_search_term", u, type, 0)]
    /\ UNCHANGED <<events, now, run, npc, nq, fetch, alerts, nusers, sends, qry, aseq, sched>>

\* lines 272-291: the button search_by_date
AskForDateRange(u) ==
    /\ conv.st[u].search = "CHOOSING_SEARCH"
    /\ conv' = [st |-> [conv.st EXCEPT ![u].search = "CHOOSING_DATE_RANGE"],
                last |-> Handled("ask_for_date_range", u, "", 0)]
    /\ UNCHANGED <<events, now, run, npc, nq, fetch, alerts, nusers, sends, qry, aseq, sched>>

\* lines 249-269: the name to search for; the search only reads
ReceivedSearchQuery(u) ==
    /\ conv.st[u].search = "TYPING_SEARCH"
    /\ \E name \in TypedNames :
          conv' = [st |-> [conv.st EXCEPT ![u].search = "END", ![u].search_type = MISSING],
                   last |-> Handled("received_search_query", u, name, 0)]
    /\ UNCHANGED <<events, now, run, npc, nq, fetch, alerts, nusers, sends, qry, aseq, sched>>

\* lines 294-331: the button today, tomorrow or weekend; the search only reads
ReceivedDateRange(u) ==
    /\ conv.st[u].search = "CHOOSING_DATE_RANGE"
    /\ \E choice \in {"today", "tomorrow", "weekend"} :
          conv' = [st |-> [conv.st EXCEPT ![u].search = "END"],
                   last |-> Handled("received_date_range", u, choice, 0)]
    /\ UNCHANGED <<events, now, run, npc, nq, fetch, alerts, nusers, sends, qry, aseq, sched>>

\* lines 334-346: the button date_range_custom
AskForCustomDate(u) ==
    /\ conv.st[u].search = "CHOOSING_DATE_RANGE"
    /\ conv' = [st |-> [conv.st EXCEPT ![u].search = "TYPING_CUSTOM_DATE"],
                last |-> Handled("ask_for_custom_date", u, "", 0)]
    /\ UNCHANGED <<events, now, run, npc, nq, fetch, alerts, nusers, sends, qry, aseq, sched>>

\* lines 349-376: a text that strptime takes is searched for as start and end date and
\* the conversation ends, one it raises on leaves the conversation where it is
ReceivedCustomDate(u) ==
    /\ conv.st[u].search = "TYPING_CUSTOM_DATE"
    /\ \E date_text \in DateTexts :
          IF Strptime[date_text]
          THEN LET res == SearchEventsByDate(events, date_text, date_text, EVENTS_PER_PAGE, 0)
               IN  /\ qry' = Page("search_date_" \o date_text \o "_" \o date_text,
                                  date_text, date_text, 0, res, Ids(res.rows), TRUE, now)
                   /\ conv' = [st |-> [conv.st EXCEPT ![u].search = "END"],
                               last |-> Handled("received_custom_date", u, date_text, 0)]
          ELSE /\ qry' = qry
               /\ conv' = [conv EXCEPT !.last = Handled("rejected_custom_date", u, date_text, 0)]
    /\ UNCHANGED <<events, now, run, npc, nq, fetch, alerts, nusers, sends, aseq, sched>>

\* /proximas, lines 201-212: the first page of the upcoming events
Proximas ==
    /\ LET res == GetUpcomingEvents(events, now, EVENTS_PER_PAGE, 0)
       IN  qry' = Page("page", "", "", 0, res, Ids(res.rows), TRUE, now)
    /\ UNCHANGED <<events, now, run, npc, nq, fetch, alerts, nusers, sends, aseq, sched, conv>>

\* the page a button of the message on display leads to: res is what the search at the
\* button's offset returned.  A page at offset 0 starts a new walk through the results
Turned(b, base, start, end, offset, res) ==
    IF offset = 0
    THEN Page(base, start, end, offset, res, Ids(res.rows), TRUE, now)
    ELSE IF b.label = "Siguiente" /\ qry.chain
    THEN Page(base, start, end, offset, res, qry.seen \o Ids(res.rows), TRUE, qry.day)
    ELSE Page(base, start, end, offset, res, <<>>, FALSE, qry.day)

\* button_handler, lines 509-549: the user presses a button of the message on display
\* (the buttons of a search by artist or club are not among them)
ButtonHandler ==
    /\ \E b \in qry.buttons :
          LET parts == SplitUnderscore(b.data)
          IN  IF parts[1] = "page"
              THEN LET offset == Num(parts[2])
                   IN  qry' = Turned(b, "page", "", "", offset,
                                     GetUpcomingEvents(events, now, EVENTS_PER_PAGE, offset))
              ELSE LET offset == Num(parts[5])
                   IN  qry' = Turned(b, "search_date_" \o parts[3] \o "_" \o parts[4],
                                     parts[3], parts[4], offset,
                                     SearchEventsByDate(events, parts[3], parts[4],
                                                        EVENTS_PER_PAGE, offset))
    /\ UNCHANGED <<events, now, run, npc, nq, fetch, alerts, nusers, sends, aseq, sched, conv>>

\* the local date changes
Midnight ==
    /\ now < MaxClock
    /\ now' = now + 1
    /\ UNCHANGED <<events, run, npc, nq, fetch, alerts, nusers, sends, qry, aseq, sched, conv>>

\* /cancel while the user is in a conversation
CancelConversation(u) ==
    /\ conv.st[u].search # "END" \/ conv.st[u].alert # "END"
    /\ conv' = [st |-> [conv.st EXCEPT ![u] = Cancelled(@)],
                last |-> Handled("cancel_conversation", u, "", 0)]
    /\ UNCHANGED <<events, now, run, npc, nq, fetch, alerts, nusers, sends, qry, aseq, sched>>

\* lines 390-410: /alertas outside the conversation, or the button back_to_alert_menu
AlertasStart(u) ==
    /\ conv.st[u].alert \in {"END", "ALERT_MENU"}
    /\ conv' = [st |-> [conv.st EXCEPT ![u].alert = "ALERT_MENU"],
                last |-> Handled("alertas_start", u, "", 0)]
    /\ UNCHANGED <<events, now, run, npc, nq, fetch, alerts, nusers, sends, qry, aseq, sched>>

\* lines 413-430: the button add_artist_alert or add_club_alert
AskForName(u) ==
    /\ conv.st[u].alert = "ALERT_MENU"
    /\ \E state \in {"ADDING_ARTIST", "ADDING_CLUB"} :
          conv' = [st |-> [conv.st EXCEPT ![u].alert = state],
                   last |-> Handled("ask_for_name", u, "", 0)]
    /\ UNCHANGED <<events, now, run, npc, nq, fetch, alerts, nusers, sends, qry, aseq, sched>>

\* lines 433-450: the name of the artist or of the club arrives (the search
\* conversation, asked first, is not waiting for a text) and add_alert stores it
ReceivedAlert(u) ==
    /\ AlertTakesText(conv.st[u])
    /\ ~SearchTakesText(conv.st[u])
    /\ aseq < MaxTyped
    /\ \E name \in TypedNames :
          /\ alerts' = AddedAlert(alerts, aseq, u,
                                  IF conv.st[u].alert = "ADDING_ARTIST" THEN "artist" ELSE "club",
                                  name)
          /\ conv' = [st |-> [conv.st EXCEPT ![u].alert = "END"],
                      last |-> Handled(IF conv.st[u].alert = "ADDING_ARTIST"
                                       THEN "received_artist_alert"
                                       ELSE "received_club_alert", u, name, 0)]
    /\ aseq' = NextAlertSeq(aseq)
    /\ UNCHANGED <<events, now, run, npc, nq, fetch, nusers, sends, qry, sched>>

\* lines 453-480: the button view_alerts; get_user_alerts only reads
ViewAlerts(u) ==
    /\ conv.st[u].alert = "ALERT_MENU"
    /\ conv' = [conv EXCEPT !.last = Handled("view_alerts", u, "", 0)]
    /\ UNCHANGED <<events, now, run, npc, nq, fetch, alerts, nusers, sends, qry, aseq, sched>>

\* lines 483-494: a button delete_alert_<id>; the id is whatever the callback carries
DeleteAlertCallback(u) ==
    /\ conv.st[u].alert = "ALERT_MENU"
    /\ \E id \in 1..aseq :
          /\ alerts' = Deleted(alerts, id)
          /\ conv' = [conv EXCEPT !.last = Handled("delete_alert_callback", u, "", id)]
    /\ UNCHANGED <<events, now, run, npc, nq, fetch, nusers, sends, qry, aseq, sched>>

\* lines 497-504: the button cancel_alert_menu
EndAlertConversation(u) ==
    /\ conv.st[u].alert = "ALERT_MENU"
    /\ conv' = [st |-> [conv.st EXCEPT ![u].alert = "END"],
                last |-> Handled("end_alert_conversation", u, "", 0)]
    /\ UNCHANGED <<events, now, run, npc, nq, fetch, alerts, nusers, sends, qry, aseq, sched>>

Init ==
    /\ events = <<>>
    /\ now = 0
    /\ run = [r \in Runs |-> IdleRun]
    /\ npc = "idle"
    /\ nq = <<>>
    /\ fetch = IdleFetch
    /\ alerts = <<>>
    /\ nusers = NoUsers
    /\ sends = <<>>
    /\ qry = IdleQuery
    /\ aseq = 0
    /\ sched = IdleSched
    /\ conv = IdleConv

\* one ingestion process (the scheduler runs one cycle at a time) and the notifier
\* of the bot process
Next ==
    \/ StartRun(1)
    \/ Select(1)
    \/ Write(1)
    \/ Commit(1)
    \/ Rerun(1)
    \/ Finish(1)
    \/ NotifyStart
    \/ NotifyMark
    \/ NotifyBusy
    \/ NotifyEnd

Spec == Init /\ [][Next]_vars

\* two ingestion processes started independently of each other
NextConc ==
    \E r \in Runs :
        \/ StartConcRun(r)
        \/ Select(r)
        \/ Write(r)
        \/ WriteBusy(r)
        \/ Commit(r)
        \/ Finish(r)

SpecConc == Init /\ [][NextConc]_vars

\* one ingestion process, run after run, over items of every shape the field rules
\* tell apart
NextNorm ==
    \/ StartNormRun(1)
    \/ Select(1)
    \/ Write(1)
    \/ Commit(1)
    \/ Finish(1)

SpecNorm == Init /\ [][NextNorm]_vars

\* the bot process (users add alerts, the job queue runs the notifier) next to one
\* ingestion process
NextNotify ==
    \/ StartAlertRun(1)
    \/ Select(1)
    \/ Write(1)
    \/ Commit(1)
    \/ Finish(1)
    \/ AddAlert
    \/ NotifyStart
    \/ NotifyFind
    \/ NotifySend
    \/ NotifyMark
    \/ NotifyBusy
    \/ NotifyEnd

SpecNotify == Init /\ [][NextNotify]_vars

\* the notifier, run by the job queue every 300 seconds for as long as the bot runs,
\* next to an ingestion process whose runs, once started, go on to their end
Notifier ==
    \/ NotifyStart
    \/ NotifyFind
    \/ NotifySendQuiet
    \/ NotifyMark
    \/ NotifyBusy
    \/ NotifyEnd

Ingestion ==
    \/ Select(1)
    \/ Write(1)
    \/ Commit(1)
    \/ Finish(1)

NextNotifyLive ==
    \/ StartAlertRun(1)
    \/ AddAlert
    \/ Ingestion
    \/ Notifier

SpecNotifyLive ==
    Init /\ [][NextNotifyLive]_vars /\ WF_vars(Notifier) /\ WF_vars(Ingestion)

\* the notifier over a store that ingestion has filled and alerts that users have
\* added, neither being written to
InitFind ==
    /\ events \in FindStores
    /\ \E adds \in FindAdds :
          /\ alerts = AlertsAfter(adds).table
          /\ aseq = AlertsAfter(adds).seq
    /\ now = 0
    /\ run = [r \in Runs |-> IdleRun]
    /\ npc = "idle"
    /\ nq = <<>>
    /\ fetch = IdleFetch
    /\ nusers = NoUsers
    /\ sends = <<>>
    /\ qry = IdleQuery
    /\ sched = IdleSched
    /\ conv = IdleConv

NextFind ==
    \/ NotifyStart
    \/ NotifyFind
    \/ NotifySendQuiet
    \/ NotifyMark
    \/ NotifyEnd

SpecFind == InitFind /\ [][NextFind]_vars

\* the bot process answering searches by date, over a store that ingestion has filled
\* and is not writing to
InitQuery ==
    /\ events \in QueryStores
    /\ now = 0
    /\ run = [r \in Runs |-> IdleRun]
    /\ npc = "idle"
    /\ nq = <<>>
    /\ fetch = IdleFetch
    /\ alerts = <<>>
    /\ nusers = NoUsers
    /\ sends = <<>>
    /\ qry = IdleQuery
    /\ aseq = 0
    /\ sched = IdleSched
    /\ conv = IdleConv

NextQuery ==
    \/ QueryCount
    \/ QuerySelect

SpecQuery == InitQuery /\ [][NextQuery]_vars

\* the scraper program: the fetch, then the ingestion of what it returned
NextFetch ==
    \/ FetchStart
    \/ Request
    \/ Sleep
    \/ MainSave
    \/ MainSkip
    \/ Select(1)
    \/ Write(1)
    \/ Commit(1)
    \/ MainEnd

SpecFetch == Init /\ [][NextFetch]_vars

\* the fetch alone, on a process that keeps running: a step that can be taken is taken
NextFetchOnly ==
    \/ FetchStart
    \/ Request
    \/ Sleep

SpecFetchLive == Init /\ [][NextFetchOnly]_vars /\ WF_vars(NextFetchOnly)

\* the scheduler process
NextSched ==
    \/ SchedRunPending
    \/ SchedSleep
    \/ JobTick
    \/ JobScrape
    \/ JobSave
    \/ JobEnd

SpecSched == Init /\ [][NextSched]_vars

\* the bot with its users in the alerts conversation
NextAlerts ==
    \E u \in Chats :
        \/ AlertasStart(u)
        \/ AskForName(u)
        \/ ReceivedAlert(u)
        \/ ViewAlerts(u)
        \/ DeleteAlertCallback(u)
        \/ EndAlertConversation(u)
        \/ CancelConversation(u)

SpecAlerts == Init /\ [][NextAlerts]_vars

\* the bot with one user, who may be in both conversations at a time
NextConv ==
    \/ BuscarStart(1)
    \/ AskForSearchTerm(1)
    \/ AskForDateRange(1)
    \/ ReceivedSearchQuery(1)
    \/ ReceivedDateRange(1)
    \/ AskForCustomDate(1)
    \/ ReceivedCustomDate(1)
    \/ AlertasStart(1)
    \/ AskForName(1)
    \/ ReceivedAlert(1)
    \/ ViewAlerts(1)
    \/ DeleteAlertCallback(1)
    \/ EndAlertConversation(1)
    \/ CancelConversation(1)

SpecConv == Init /\ [][NextConv]_vars

\* the bot with one user who searches by a date of their own, over a store that
\* ingestion has filled and is not writing to
NextDate ==
    \/ BuscarStart(1)
    \/ AskForDateRange(1)
    \/ AskForCustomDate(1)
    \/ ReceivedCustomDate(1)
    \/ CancelConversation(1)

SpecDate == InitQuery /\ [][NextDate]_vars

\* the bot with one user who pages through the upcoming events and through the events
\* of a date, over a store that ingestion has filled and is not writing to
InitPages ==
    /\ events \in ListedStores
    /\ now = 0
    /\ run = [r \in Runs |-> IdleRun]
    /\ npc = "idle"
    /\ nq = <<>>
    /\ fetch = IdleFetch
    /\ alerts = <<>>
    /\ nusers = NoUsers
    /\ sends = <<>>
    /\ qry = IdleQuery
    /\ aseq = 0
    /\ sched = IdleSched
    /\ conv = IdleConv

NextPages ==
    \/ BuscarStart(1)
    \/ AskForDateRange(1)
    \/ AskForCustomDate(1)
    \/ ReceivedCustomDate(1)
    \/ Proximas
    \/ ButtonHandler
    \/ Midnight

SpecPages == InitPages /\ [][NextPages]_vars

\* ------------------------------------------------------- claims: helpers

LinksOf(table) == {table[i].source_link : i \in 1..Len(table)}

\* the rows of table that hold link
RowsOf(table, link) == {i \in 1..Len(table) : table[i].source_link = link}

\* the columns the UPDATE of line 115 sets
MutableOf(row) ==
    [event_name      |-> row.event_name,
     club_name       |-> row.club_name,
     event_date      |-> row.event_date,
     start_time      |-> row.start_time,
     end_time        |-> row.end_time,
     artists         |-> row.artists,
     attending_count |-> row.attending_count,
     buy_link        |-> row.buy_link,
     flyer_image     |-> row.flyer_image]

\* the item yields a draft (its event is a dict and lines 77-110 do not raise)
Normalizes(item) == ~EventFalsy(item) /\ EventIsDict(item) /\ Normalized[item].ok

\* the item yields a draft that the table accepts
Writable(item) == Normalizes(item) /\ NotNullOk(Normalized[item].draft)

LinkOf(item) == Normalized[item].draft.source_link

\* the source links of the drafts of batch b that the table accepts
BatchLinks(b) == {LinkOf(b[i]) : i \in {j \in 1..Len(b) : Writable(b[j])}}

\* the positions of the items of the current batch of r that were written
Written(r) == {j \in 1..Len(run[r].outcomes) : run[r].outcomes[j] \in {"inserted", "updated"}}

Ended(r) == run[r].pc = "done"
Returned(r) == run[r].pc = "done" /\ run[r].status = "returned"

\* the last outcome of the current call of r
LastOutcome(r) ==
    IF run[r].outcomes = <<>> THEN "none" ELSE run[r].outcomes[Len(run[r].outcomes)]

\* ------------------------------------------------------------------- C1

\* C1 (uniqueness): in every state reachable by ingestion runs, one after the other or
\* two at a time, over batches that repeat a source link within one batch or across
\* runs, no two rows of the committed events table have the same source_link, nor do
\* two rows of the table an open transaction sees.
UniqueLinks(table) ==
    \A i, j \in 1..Len(table) : table[i].source_link = table[j].source_link => i = j

C1_Uniqueness == UniqueLinks(events) /\ \A r \in Runs : UniqueLinks(run[r].view)

\* a run has returned whose batch named one link twice, the link being stored already
\* when the run began
C1_Witness ==
    \E r \in Runs :
        /\ Returned(r)
        /\ Len(run[r].batch) = 2
        /\ Writable(run[r].batch[1]) /\ Writable(run[r].batch[2])
        /\ LinkOf(run[r].batch[1]) = LinkOf(run[r].batch[2])
        /\ LinkOf(run[r].batch[1]) \in LinksOf(run[r].start)
        /\ LinkOf(run[r].batch[1]) \in LinksOf(events)

\* ------------------------------------------------------------------- C2

\* C2 (idempotence): when transform_and_save_events is called a second time with the
\* batch of the call before it and nothing else wrote to the store in between, the
\* events table after the second call equals the table after the first (every column,
\* notified included), and the second call returns 0 new events.
C2_Idempotence ==
    \A r \in Runs :
        (Ended(r) /\ run[r].twice) =>
            /\ run[r].after = run[r].start
            /\ run[r].status = "returned" => run[r].ret = 0

\* a second call has returned that updated a stored event which was notified already
C2_Witness ==
    \E r \in Runs :
        /\ Returned(r) /\ run[r].twice
        /\ run[r].upd > 0
        /\ \E i \in 1..Len(run[r].after) :
              /\ run[r].after[i].notified = 1
              /\ run[r].after[i].source_link \in BatchLinks(run[r].batch)

\* ------------------------------------------------------------------- C3

\* C3 (notified monotonicity): in every step of any interleaving of ingestion runs and
\* notifier runs, a row that has notified = 1 before the step is still there after it,
\* with notified = 1; this holds of the committed table and of the table each
\* ingestion connection sees.
StaysNotified(before, after) ==
    \A i \in 1..Len(before) :
        before[i].notified = 1 =>
            /\ i <= Len(after)
            /\ after[i].id = before[i].id
            /\ after[i].notified = 1

C3_NotifiedMonotonic ==
    [][/\ StaysNotified(events, events')
       /\ \A r \in Runs : StaysNotified(Seen(r), Seen(r)')]_vars

\* an ingestion run has updated and committed an event that was notified before the run
C3_Witness ==
    \E r \in Runs :
        /\ Returned(r)
        /\ \E j \in Written(r) :
              /\ run[r].outcomes[j] = "updated"
              /\ \E i \in 1..Len(run[r].start) :
                    /\ run[r].start[i].source_link = LinkOf(run[r].batch[j])
                    /\ run[r].start[i].notified = 1
                    /\ events[i].notified = 1

\* ------------------------------------------------------------------- C4

\* C4 (frame of the update): the write of a draft whose source link the lookup found
\* leaves the row count as it was, leaves id, source_link, notified and date_added of
\* the row with that link as they were, and leaves every other row as it was.
UpdateFrame(before, after, link) ==
    /\ Len(after) = Len(before)
    /\ \A i \in 1..Len(before) :
          IF before[i].source_link = link
          THEN /\ after[i].id = before[i].id
               /\ after[i].source_link = before[i].source_link
               /\ after[i].notified = before[i].notified
               /\ after[i].date_added = before[i].date_added
          ELSE after[i] = before[i]

C4_UpdateFrame ==
    [][\A r \in Runs :
          (run[r].pc = "write" /\ run[r].existing /\ run'[r].pc # "write") =>
              UpdateFrame(Seen(r), Seen(r)', LinkOf(run[r].batch[run[r].idx]))]_vars

\* an update has just changed the name of an event that was notified and was added
\* before the clock last advanced, next to another stored event
C4_Witness ==
    \E r \in Runs :
        /\ run[r].pc = "loop" /\ run[r].txn
        /\ LastOutcome(r) = "updated"
        /\ Len(run[r].view) = 2
        /\ \E i \in 1..Len(run[r].view) :
              /\ run[r].view[i].source_link = LinkOf(run[r].batch[run[r].idx - 1])
              /\ run[r].view[i].notified = 1
              /\ run[r].view[i].date_added < now
              /\ run[r].view[i].event_name # run[r].start[i].event_name

\* ------------------------------------------------------------------- C5

\* C5 (insert counting): a call that returns has returned the number of distinct
\* source links among the drafts of its batch that the table accepts and that were
\* not stored when the call began; the table grew by exactly that many rows, each of
\* these links has exactly one row, created with notified = 0, and each was counted
\* as inserted once.
C5_InsertCounting ==
    \A r \in Runs :
        Returned(r) =>
            LET fresh == BatchLinks(run[r].batch) \ LinksOf(run[r].start)
            IN  /\ run[r].ret = Cardinality(fresh)
                /\ Len(run[r].after) = Len(run[r].start) + Cardinality(fresh)
                /\ \A l \in fresh :
                      /\ Cardinality(RowsOf(run[r].after, l)) = 1
                      /\ \A i \in RowsOf(run[r].after, l) : run[r].after[i].notified = 0
                      /\ Cardinality({j \in Written(r) :
                            run[r].outcomes[j] = "inserted" /\ LinkOf(run[r].batch[j]) = l}) = 1
                /\ \A j \in Written(r) :
                      run[r].outcomes[j] = "inserted" => LinkOf(run[r].batch[j]) \in fresh

\* a run over a window that overlaps the store has returned: one link of its batch was
\* stored before, another was not, and it reports one new event
C5_Witness ==
    \E r \in Runs :
        /\ Returned(r)
        /\ Cardinality(BatchLinks(run[r].batch)) = 2
        /\ Cardinality(BatchLinks(run[r].batch) \cap LinksOf(run[r].start)) = 1
        /\ run[r].ret = 1

\* ------------------------------------------------------------------- C6

\* C6 (updated only if changed): when the write for a draft whose source link is
\* stored leaves every column of every row as it was, the updated counter is not
\* incremented.
C6_UpdatedOnlyIfChanged ==
    [][\A r \in Runs :
          (/\ run[r].pc = "write" /\ run[r].existing /\ run'[r].pc # "write"
           /\ Seen(r)' = Seen(r)) =>
              run'[r].upd = run[r].upd]_vars

\* ------------------------------------------------------------------- C7

\* C7 (full overwrite): at every point of a call that has not raised, for every item
\* written so far that is the last written item of its source link, the row of that
\* link holds the nine mutable columns of the item's draft, whatever it held before.
C7_FullOverwrite ==
    \A r \in Runs :
        (run[r].pc # "idle" /\ run[r].status # "raised") =>
            LET table == IF Ended(r) THEN run[r].after ELSE Seen(r)
            IN  \A j \in Written(r) :
                    (\A k \in Written(r) :
                        k > j => LinkOf(run[r].batch[k]) # LinkOf(run[r].batch[j])) =>
                    \E i \in 1..Len(table) :
                        /\ table[i].source_link = LinkOf(run[r].batch[j])
                        /\ MutableOf(table[i]) = MutableOf(Normalized[run[r].batch[j]].draft)

\* a call has returned that updated one stored event twice, with two different drafts,
\* and left it different from what it was
C7_Witness ==
    \E r \in Runs :
        /\ Returned(r)
        /\ run[r].outcomes = <<"updated", "updated">>
        /\ LinkOf(run[r].batch[1]) = LinkOf(run[r].batch[2])
        /\ Normalized[run[r].batch[1]].draft # Normalized[run[r].batch[2]].draft
        /\ \E i \in 1..Len(run[r].start) :
              /\ run[r].start[i].source_link = LinkOf(run[r].batch[2])
              /\ MutableOf(run[r].after[i]) # MutableOf(run[r].start[i])

\* ------------------------------------------------------------------- C8

\* per item: one of the three timestamps of the event is a string that is not an ISO
\* timestamp
HasMalformedDate ==
    [item \in Items |->
        /\ ~EventFalsy(item) /\ EventIsDict(item)
        /\ \E v \in {item.date, item.startTime, item.endTime} :
              v # MISSING /\ v # NULL /\ ~TimestampOk(v)]

MalformedDate(item) == HasMalformedDate[item]

Without(seq, i) == SubSeq(seq, 1, i - 1) \o SubSeq(seq, i + 1, Len(seq))

\* the columns of a table that neither the clock nor the notifier decides
Data(table) ==
    [i \in 1..Len(table) |->
        [id |-> table[i].id, source_link |-> table[i].source_link,
         mutable |-> MutableOf(table[i])]]

\* C8 (partial-failure isolation): a call whose batch holds exactly one item with a
\* malformed date field, all other items yielding drafts the table accepts, returns;
\* every item has one outcome, skipped-error for the malformed item and inserted or
\* updated for the others, as many items are counted processed as the batch holds,
\* and the outcomes and the stored data are those of the batch without the malformed
\* item.
C8_PartialFailureIsolation ==
    \A r \in Runs :
        Ended(r) =>
            \A i \in 1..Len(run[r].batch) :
                (/\ MalformedDate(run[r].batch[i])
                 /\ \A j \in 1..Len(run[r].batch) : j # i => Writable(run[r].batch[j])) =>
                    LET ref == Reconciled(run[r].start, <<>>, Without(run[r].batch, i))
                    IN  /\ run[r].status = "returned"
                        /\ Len(run[r].outcomes) = Len(run[r].batch)
                        /\ run[r].outcomes[i] = "skipped-error"
                        /\ Without(run[r].outcomes, i) = ref.outcomes
                        /\ run[r].proc = Len(run[r].batch)
                        /\ run[r].new + run[r].upd = Len(run[r].batch) - 1
                        /\ Data(run[r].after) = Data(ref.table)

\* a call has returned whose first item had a malformed date and whose second item
\* was inserted
C8_Witness ==
    \E r \in Runs :
        /\ Returned(r)
        /\ Len(run[r].batch) = 2
        /\ MalformedDate(run[r].batch[1])
        /\ run[r].outcomes = <<"skipped-error", "inserted">>
        /\ LinkOf(run[r].batch[2]) \in LinksOf(events)

\* ------------------------------------------------------------------- C9

\* C9 (never raises): every call of transform_and_save_events that ends, ends by
\* returning, whatever the shape of the items of its batch.
C9_NeverRaises == \A r \in Runs : Ended(r) => run[r].status = "returned"

\* ------------------------------------------------------------------ C10

\* the item yields a draft and the table refuses it (event_name NOT NULL)
WriteFails(item) == Normalizes(item) /\ ~NotNullOk(Normalized[item].draft)

RECURSIVE WritableOnly(_)
WritableOnly(items) ==
    IF items = <<>> THEN <<>>
    ELSE (IF Writable(Head(items)) THEN <<Head(items)>> ELSE <<>>)
         \o WritableOnly(Tail(items))

\* C10 (a write error is fatal for its item only): a call whose batch holds items the
\* table refuses, all its other items yielding drafts the table accepts, returns;
\* each refused item is skipped-error, each other item is inserted or updated, those
\* before a refused item as well as those after it, and the data committed are those
\* of the batch without the refused items.
C10_WriteErrorIsolation ==
    \A r \in Runs :
        Ended(r) =>
            ((/\ \A j \in 1..Len(run[r].batch) :
                    Writable(run[r].batch[j]) \/ WriteFails(run[r].batch[j])
              /\ \E j \in 1..Len(run[r].batch) : WriteFails(run[r].batch[j])) =>
                LET ref == Reconciled(run[r].start, <<>>, WritableOnly(run[r].batch))
                IN  /\ run[r].status = "returned"
                    /\ Len(run[r].outcomes) = Len(run[r].batch)
                    /\ \A j \in 1..Len(run[r].batch) :
                          IF WriteFails(run[r].batch[j])
                          THEN run[r].outcomes[j] = "skipped-error"
                          ELSE run[r].outcomes[j] \in {"inserted", "updated"}
                    /\ Data(run[r].after) = Data(ref.table)
                    /\ Data(events) = Data(run[r].after))

\* a call has returned that inserted its first item and whose second item, for the
\* same link, was refused by the table: the insert is committed
C10_Witness ==
    \E r \in Runs :
        /\ Returned(r)
        /\ Len(run[r].batch) = 2
        /\ WriteFails(run[r].batch[2])
        /\ run[r].outcomes = <<"inserted", "skipped-error">>
        /\ LinkOf(run[r].batch[1]) \in LinksOf(events) \ LinksOf(run[r].start)

\* ------------------------------------------------------------------ C11

\* the requests of a log, in order
Requests(log) == SelectSeq(log, LAMBDA e : e.op = "req")

\* the items of the responses to a sequence of requests, in request order and in
\* item order within each response
RECURSIVE ItemsOf(_)
ItemsOf(reqs) == IF reqs = <<>> THEN <<>> ELSE Head(reqs).items \o ItemsOf(Tail(reqs))

\* the fetch has returned and the model kept all its pages
FetchReturned == fetch.pc = "done" /\ ~fetch.over

\* C11 (sequential pagination): the i-th request of a fetch asks for page i; and when
\* a fetch has returned without any page failing, some page returned zero items, the
\* first such page k is the last page requested, and the fetch returned the items of
\* pages 1..k-1 in page order and in item order within each page.
C11_SequentialPagination ==
    LET reqs == Requests(fetch.log)
    IN  /\ \A i \in 1..Len(reqs) : reqs[i].page = i
        /\ (FetchReturned /\ \A i \in 1..Len(reqs) : reqs[i].kind = "page") =>
              /\ \E i \in 1..Len(reqs) : reqs[i].items = <<>>
              /\ LET k == CHOOSE i \in 1..Len(reqs) :
                             /\ reqs[i].items = <<>>
                             /\ \A j \in 1..(i - 1) : reqs[j].items # <<>>
                 IN  /\ Len(reqs) = k
                     /\ fetch.status = "returned"
                     /\ fetch.ret = ItemsOf(SubSeq(reqs, 1, k - 1))

\* a fetch has returned after two pages with items and an empty third page; the first
\* page held two different items
C11_Witness ==
    /\ FetchReturned
    /\ fetch.ended = "page"
    /\ Len(Requests(fetch.log)) = 3
    /\ Len(Requests(fetch.log)[1].items) = 2
    /\ Requests(fetch.log)[1].items[1] # Requests(fetch.log)[1].items[2]
    /\ Len(fetch.ret) >= 3

\* ------------------------------------------------------------------ C12

\* C12 (a fatal response keeps the partial result): when the request for page k of a
\* fetch ended in a fatal response, that request is the last of the fetch, the fetch
\* returned (it did not raise) exactly the items of pages 1..k-1, and when there are
\* such items the program goes on to transform_and_save_events with exactly them,
\* which gives every one of them an outcome.
C12_FatalKeepsPartial ==
    LET reqs == Requests(fetch.log)
        k    == Len(reqs)
    IN  /\ (FetchReturned /\ fetch.ended \in FatalKinds) =>
              /\ k >= 1
              /\ reqs[k].kind = fetch.ended
              /\ \A i \in 1..(k - 1) : reqs[i].kind = "page" /\ reqs[i].items # <<>>
              /\ fetch.status = "returned"
              /\ fetch.ret = ItemsOf(SubSeq(reqs, 1, k - 1))
              /\ fetch.ret # <<>> => ENABLED MainSave
        /\ (fetch.pc = "save" /\ fetch.ended \in FatalKinds) =>
              /\ run[1].pc # "idle"
              /\ run[1].batch = fetch.ret
              /\ run[1].pc = "done" =>
                    /\ run[1].status = "returned"
                    /\ Len(run[1].outcomes) = Len(fetch.ret)

\* the second request of a fetch timed out, and the two items of the first page have
\* been ingested and committed
C12_Witness ==
    /\ fetch.pc = "save"
    /\ fetch.ended = "timeout"
    /\ Len(fetch.ret) = 2
    /\ run[1].pc = "done"
    /\ run[1].outcomes = <<"inserted", "inserted">>
    /\ Len(events) = 2

\* ------------------------------------------------------------------ C13

\* what the caller of fetch_events_from_api gets from a call that has ended
Outcome(f) == [raised |-> f.status = "raised", ret |-> f.ret]

\* a fetch whose first page succeeded and held zero events
EmptyFirstPage == Paginate(BeginFetch, [kind |-> "page", items |-> <<>>])

\* C13 (a fatal first page is distinguishable): a fetch whose first request ended in
\* a fatal response gives its caller an outcome that differs from the outcome of a
\* fetch whose first page succeeded and held zero events.
C13_FatalFirstPageDistinct ==
    (/\ fetch.pc = "done"
     /\ fetch.ended \in FatalKinds
     /\ Len(Requests(fetch.log)) = 1) =>
        Outcome(fetch) # Outcome(EmptyFirstPage)

\* ------------------------------------------------------------------ C14

\* C14 (politeness pacing): in the order of events of one fetch, a request is the
\* first event or comes right after a pause, and a pause comes right after a request:
\* between two consecutive requests there is exactly one pause; and the loop is about
\* to issue a request only at the start of the fetch or right after a pause.
C14_Pacing ==
    /\ \A i \in 1..Len(fetch.log) :
          IF fetch.log[i].op = "req"
          THEN i = 1 \/ fetch.log[i - 1].op = "sleep"
          ELSE i > 1 /\ fetch.log[i - 1].op = "req"
    /\ (fetch.pc = "request" /\ ~fetch.over) =>
          (fetch.log = <<>> \/ fetch.log[Len(fetch.log)].op = "sleep")

\* a fetch has issued three requests
C14_Witness ==
    /\ Len(Requests(fetch.log)) = 3
    /\ Len(fetch.log) = 5

\* ------------------------------------------------------------------ C15

\* C15 (the fetch terminates): every call of fetch_events_from_api, once it is at its
\* first request, eventually returns, each of its requests returning a page, an error
\* or a timeout, whatever upstream answers.
C15_FetchTerminates == (fetch.pc = "request") ~> (fetch.pc = "done")

\* ------------------------------------------------------------------ C16

\* the names of the artist entries of an item that have a non-empty name
NamedArtists(item) ==
    IF item.artists.k # "list" THEN <<>>
    ELSE SelectSeq(item.artists.v, LAMBDA n : n # MISSING /\ n # NULL /\ n # "")

\* the table a call of r has produced so far
TableOf(r) == IF Ended(r) THEN run[r].after ELSE Seen(r)

\* the items of the current call of r that were written and whose source link no
\* later item of the call has written again
LastWritten(r) ==
    {j \in Written(r) :
        \A k \in Written(r) : k > j => LinkOf(run[r].batch[k]) # LinkOf(run[r].batch[j])}

\* the row of table that holds link
RowOf(table, link) == table[CHOOSE i \in 1..Len(table) : table[i].source_link = link]

\* C16 (artists sentinel): no row of the events table, committed or seen by an open
\* transaction, has an empty or null artists value; and the row an item was written
\* to holds the item's non-empty artist names joined with ", ", or the sentinel
\* phrase when the item has no non-empty artist name.
C16_ArtistsSentinel ==
    /\ \A i \in 1..Len(events) : events[i].artists \notin {"", NULL}
    /\ \A r \in Runs :
          /\ \A i \in 1..Len(run[r].view) : run[r].view[i].artists \notin {"", NULL}
          /\ (run[r].pc # "idle" /\ run[r].status # "raised") =>
                \A j \in LastWritten(r) :
                    RowOf(TableOf(r), LinkOf(run[r].batch[j])).artists =
                        IF NamedArtists(run[r].batch[j]) = <<>> THEN ARTISTS_SENTINEL
                        ELSE Join(NamedArtists(run[r].batch[j]))

\* a call has returned that stored an event with three artist entries, none of them
\* with a name, over a stored event that had named artists
C16_Witness ==
    \E r \in Runs :
        /\ Returned(r)
        /\ run[r].outcomes = <<"updated">>
        /\ Len(run[r].batch[1].artists.v) = 3
        /\ NamedArtists(run[r].batch[1]) = <<>>
        /\ run[r].start[1].artists = "Ana, Bo"
        /\ events[1].artists = ARTISTS_SENTINEL

\* ------------------------------------------------------------------ C17

\* the item has no club: no venue key, a null venue, a venue without name, a null name
NoClub(item) ==
    \/ item.venue.k \in {MISSING, NULL}
    \/ item.venue.name \in {MISSING, NULL}

\* per item: with a venue that has a name, the item is one that is stored
WithVenueWritable ==
    [item \in NormItems |->
        LET e == [item EXCEPT !.venue = [k |-> "dict", name |-> "Y"]]
        IN  ~EventFalsy(e) /\ EventIsDict(e) /\ NormalizeOk(e) /\ NotNullOk(Draft(e))]

VenueAside(item) == WithVenueWritable[item]

\* C17 (club sentinel): no row of the events table has a null or empty club_name, and
\* a call that returns has stored every item of its batch that has no club (and is
\* otherwise well formed), with club_name = "TBA".
C17_ClubSentinel ==
    /\ \A i \in 1..Len(events) : events[i].club_name \notin {"", NULL}
    /\ \A r \in Runs :
          Returned(r) =>
              \A j \in 1..Len(run[r].batch) :
                  (NoClub(run[r].batch[j]) /\ VenueAside(run[r].batch[j])) =>
                      /\ j \in Written(r)
                      /\ j \in LastWritten(r) =>
                            RowOf(run[r].after, LinkOf(run[r].batch[j])).club_name
                                = CLUB_SENTINEL

\* ------------------------------------------------------------------ C18

\* C18 (event date): the row an item was written to holds as event_date the date of
\* the item's startTime, written YYYY-MM-DD.
C18_EventDateFromStart ==
    \A r \in Runs :
        (run[r].pc # "idle" /\ run[r].status # "raised") =>
            \A j \in LastWritten(r) :
                RowOf(TableOf(r), LinkOf(run[r].batch[j])).event_date =
                    StrfDate(ParseTimestamp(run[r].batch[j].startTime))

\* ------------------------------------------------------------------ C19

\* the sends the notifier has attempted for the event it is handling, in this turn of
\* its loop over the events
SendsOfTurn ==
    SubSeq(sends, Len(sends) - Cardinality(nusers.all \ nusers.left) + 1, Len(sends))

\* C19 (notified only after successful dispatch): whenever a step sets notified of an
\* event from 0 to 1, the notifier has sent the event to every user it matched for it
\* and none of these sends has failed.
C19_MarkedAfterDispatch ==
    [][\A i \in 1..Len(events) :
          (events[i].notified = 0 /\ events'[i].notified = 1) =>
              /\ nusers.left = {}
              /\ \A k \in 1..Len(SendsOfTurn) : SendsOfTurn[k].ok]_vars

\* ------------------------------------------------------------------ C20

\* a date YYYY-MM-DD and a time HH:MM as numbers that grow with the calendar and the
\* clock
DateNumber(d) == 10000 * Num(SubSeq(d, 1, 4)) + 100 * Num(SubSeq(d, 6, 7)) + Num(SubSeq(d, 9, 10))
TimeNumber(t) == 60 * Num(SubSeq(t, 1, 2)) + Num(SubSeq(t, 4, 5))

\* the stored events dated from start to end, both days included
Dated(start, end) ==
    {i \in 1..Len(events) :
        /\ DateNumber(start) <= DateNumber(events[i].event_date)
        /\ DateNumber(events[i].event_date) <= DateNumber(end)}

\* rows is in the order of event_date, then start_time
InDateOrder(rows) ==
    \A i, j \in 1..Len(rows) :
        i < j =>
            \/ DateNumber(rows[i].event_date) < DateNumber(rows[j].event_date)
            \/ /\ rows[i].event_date = rows[j].event_date
               /\ TimeNumber(rows[i].start_time) <= TimeNumber(rows[j].start_time)

\* C20 (windowed query): for a search with start <= end, the total reported is the
\* number of stored events dated from start to end, both days included, and the rows
\* returned are the rows offset+1 .. offset+limit (as far as there are that many) of
\* a list of exactly these events in the order of event_date, then start_time.
C20_WindowedQuery ==
    (qry.pc # "idle" /\ DateNumber(qry.start) <= DateNumber(qry.end)) =>
        /\ qry.total = Cardinality(Dated(qry.start, qry.end))
        /\ qry.pc = "done" =>
              \E list \in [1..qry.total -> {events[i] : i \in Dated(qry.start, qry.end)}] :
                  /\ \A i \in Dated(qry.start, qry.end) : \E k \in 1..qry.total : list[k] = events[i]
                  /\ InDateOrder(list)
                  /\ qry.rows = [k \in 1..(IF qry.total - qry.offset < 0 THEN 0
                                           ELSE IF qry.total - qry.offset < qry.limit
                                                THEN qry.total - qry.offset
                                                ELSE qry.limit) |-> list[qry.offset + k]]

\* a search from the 5th to the 7th has returned the second of three events, which are
\* dated the 5th, the 5th and the 7th, the one stored first being the last of them
C20_Witness ==
    /\ qry.pc = "done"
    /\ qry.start = "2025-09-05" /\ qry.end = "2025-09-07"
    /\ qry.total = 3 /\ qry.offset = 1 /\ qry.limit = 1
    /\ events[1].event_date = "2025-09-07"
    /\ events[2].event_date = "2025-09-05" /\ events[2].start_time = "23:00"
    /\ events[3].event_date = "2025-09-05" /\ events[3].start_time = "21:00"
    /\ qry.rows = <<events[2]>>

\* ------------------------------------------------------------------- C21

\* C21 (atomic lookup-then-write): over any interleaving of two ingestion runs, no run
\* is about to write on a lookup that a committed write of the other run has made
\* stale, the store holds at most one row per source link, and no item whose draft the
\* table accepts is lost to an error: every such item a run has gone past was inserted
\* or updated by that run.
StaleLookup(r) ==
    /\ run[r].pc = "write"
    /\ ~run[r].existing
    /\ LinkOf(run[r].batch[run[r].idx]) \in LinksOf(Seen(r))

C21_AtomicUpsert ==
    /\ UniqueLinks(events)
    /\ \A r \in Runs :
          /\ ~StaleLookup(r)
          /\ \A j \in 1..Len(run[r].outcomes) :
                Writable(run[r].batch[j]) => run[r].outcomes[j] \in {"inserted", "updated"}

\* ------------------------------------------------------------------- C22

\* C22 (no deletion): no step of an ingestion run (its writes, its commit, a call that
\* raises and rolls back) and no step of the notifier removes a row of the committed
\* events table: the table never gets shorter, and every row keeps its place, its id
\* and its source_link.
C22_NoDeletion ==
    [][/\ Len(events') >= Len(events)
       /\ \A i \in 1..Len(events) :
             /\ events'[i].id = events[i].id
             /\ events'[i].source_link = events[i].source_link]_vars

\* two events are stored, one of them was announced, and a later run has updated a
\* stored event and returned
C22_Witness ==
    /\ Len(events) = 2
    /\ \E i \in 1..Len(events) : events[i].notified = 1
    /\ Returned(1)
    /\ \E j \in 1..Len(run[1].outcomes) : run[1].outcomes[j] = "updated"

\* ------------------------------------------------------------------- C23

\* C23 (cycles do not overlap): at any moment at most one invocation of job() has
\* begun and not returned, and every invocation but the last has returned no later
\* than the next one began.
C23_NoOverlap ==
    /\ Cardinality(Running(sched)) <= 1
    /\ \A i \in 1..(Len(sched.jobs) - 1) :
          /\ sched.jobs[i].pc = "done"
          /\ sched.jobs[i].ended <= sched.jobs[i + 1].begun

\* a first invocation that took time has returned, and the second, started as soon as
\* it was due, is saving
C23_Witness ==
    /\ Len(sched.jobs) = 2
    /\ sched.jobs[1].pc = "done"
    /\ sched.jobs[1].ended > sched.jobs[1].begun
    /\ sched.jobs[2].pc = "save"
    /\ sched.jobs[2].begun = sched.jobs[1].ended + Interval

\* ------------------------------------------------------------------- C24

\* C24 (at-most-once alerting): over notifier jobs interleaved with ingestion runs,
\* no two send attempts are for the same event and the same chat, and no send is
\* attempted for an event whose stored notified flag is 1.
C24_AtMostOnce ==
    /\ \A i, j \in 1..Len(sends) :
          (sends[i].event = sends[j].event /\ sends[i].chat = sends[j].chat) => i = j
    /\ npc = "send" =>
          \A k \in 1..Len(events) : events[k].id = Head(nq).id => events[k].notified = 0

\* ------------------------------------------------------------------- C25

UnderWay(r) == run[r].pc \in {"loop", "write"}

C26_BatchVisibility ==
    [][\A r \in Runs :
          /\ UnderWay(r) => Data(events) = Data(run[r].start)
          /\ (UnderWay(r) /\ run'[r].pc = "done" /\ run'[r].status = "returned") =>
                /\ run[r].txn => events' = run[r].view
                /\ ~run[r].txn => events' = events
          /\ (UnderWay(r) /\ run'[r].pc = "done" /\ run'[r].status = "raised") =>
                /\ events' = events
                /\ Data(events') = Data(run[r].start)]_vars

\* the notifier has read the unnotified events while a call that has inserted two events
\* has not committed: it has read none of them
C26_Witness ==
    /\ UnderWay(1)
    /\ run[1].txn
    /\ Len(run[1].view) = Len(events) + 2
    /\ npc = "loop"
    /\ nq = Unnotified(events)

\* ------------------------------------------------------------------- C27

\* value is contained in text: it is text[i+1..i+Len(value)] for some i
Within ==
    [text \in UNION {{StoredKeys[d].club} \cup StoredKeys[d].artists : d \in DOMAIN StoredKeys},
     value \in {Lower(input.value) : input \in FindInputs} |->
        \E i \in 0..(Len(text) - Len(value)) : SubSeq(text, i + 1, i + Len(value)) = value]

\* the chats that own a club alert contained in the lower-cased club name of the event
\* or an artist alert contained in the lower-cased, trimmed name of one of its artists
Subscribers(table, event) ==
    LET keys == StoredKeys[[club_name |-> event.club_name, artists |-> event.artists]]
    IN  {table[i].chat_id :
            i \in {j \in 1..Len(table) :
                      \/ /\ table[j].alert_type = "club"
                         /\ keys.club # ""
                         /\ Within[keys.club, table[j].alert_value]
                      \/ /\ table[j].alert_type = "artist"
                         /\ \E a \in keys.artists : Within[a, table[j].alert_value]}}

\* C27 (who is notified): the users find_users_for_new_event returns for the event the
\* notifier is handling are exactly the chats that own an alert whose value is contained
\* in the club name or in the name of one of the artists of the event; when no chat
\* does, it returns none.
C27_FindUsersExact ==
    /\ npc = "send" => nusers.all = Subscribers(alerts, Head(nq))
    /\ (npc = "loop" /\ nq # <<>>) =>
          (ENABLED NotifyFind <=> Subscribers(alerts, Head(nq)) # {})

\* the type of alert a handler of the alerts conversation stores
StoredType(op) == IF op = "received_artist_alert" THEN "artist" ELSE "club"

\* the update just handled stored an alert whose (chat_id, alert_type, value in lower
\* case) was in the table already
Readded ==
    /\ conv.last.op \in {"received_artist_alert", "received_club_alert"}
    /\ \E i \in 1..Len(conv.last.before) :
          /\ conv.last.before[i].chat_id = conv.last.user
          /\ conv.last.before[i].alert_type = StoredType(conv.last.op)
          /\ Lower(conv.last.before[i].alert_value) = Lower(conv.last.name)

\* C28: whatever alerts users add and delete, no two rows of alerts share (chat_id,
\* alert_type, alert_value), every stored alert_value is in lower case, and adding
\* once more a value that differs only in letter case from a stored one of the same
\* chat and type leaves the table as it was
C28_AlertUniqueness ==
    /\ \A i, j \in 1..Len(alerts) :
          (/\ alerts[i].chat_id = alerts[j].chat_id
           /\ alerts[i].alert_type = alerts[j].alert_type
           /\ alerts[i].alert_value = alerts[j].alert_value) => i = j
    /\ \A i \in 1..Len(alerts) : Lower(alerts[i].alert_value) = alerts[i].alert_value
    /\ Readded => alerts = conv.last.before

\* a value is added again in another letter case, after an alert was deleted
C28_Witness ==
    /\ Readded
    /\ \A i \in 1..Len(conv.last.before) : conv.last.before[i].alert_value # conv.last.name
    /\ \E i \in 1..Len(alerts) : alerts[i].id > 1
    /\ \A i \in 1..Len(alerts) : alerts[i].id # 1

\* C29: when user u presses a button delete_alert_<id>, whatever id it carries, every
\* row of alerts whose chat_id is not u stays in the table
C29_DeleteConfined ==
    conv.last.op = "delete_alert_callback" =>
        \A i \in 1..Len(conv.last.before) :
            conv.last.before[i].chat_id # conv.last.user =>
                \E j \in 1..Len(alerts) : alerts[j] = conv.last.before[i]

\* C30: after a /cancel sent from whatever state, the user is in neither the search
\* conversation nor the alerts conversation, user_data is empty and the alerts table
\* is as it was
C30_CancelEnds ==
    conv.last.op = "cancel_conversation" =>
        /\ conv.st[conv.last.user].search = "END"
        /\ conv.st[conv.last.user].alert = "END"
        /\ conv.st[conv.last.user].search_type = MISSING
        /\ alerts = conv.last.before
        /\ events = <<>>

\* a date written YYYY-MM-DD: four, two and two digits that make a date
ValidDate(s) == Len(s) = 10 /\ IsIsoDate(s)

\* C31: while user 1 is asked for a date, a text that is not a date written YYYY-MM-DD
\* leaves the conversation in TYPING_CUSTOM_DATE and runs no search, however many such
\* texts came before; a date written YYYY-MM-DD is searched for as start and as end,
\* from offset 0, the total being the number of events of that day, and ends the
\* conversation
C31_CustomDateEntry ==
    [][(/\ conv.st[1].search = "TYPING_CUSTOM_DATE"
        /\ conv'.last.op \in {"received_custom_date", "rejected_custom_date"}) =>
           IF ValidDate(conv'.last.name)
           THEN /\ conv'.st[1].search = "END"
                /\ qry'.pc = "done"
                /\ qry'.start = conv'.last.name /\ qry'.end = conv'.last.name
                /\ qry'.offset = 0
                /\ qry'.total = Cardinality(Dated(conv'.last.name, conv'.last.name))
           ELSE /\ conv'.st[1].search = "TYPING_CUSTOM_DATE"
                /\ qry' = qry]_vars

\* the stored events that are results of the search whose page is on display, the
\* local date being that of the clock at day
Results(day) ==
    IF qry.start = ""
    THEN {i \in 1..Len(events) :
             DateNumber(events[i].event_date) >= DateNumber(Today(day))}
    ELSE Dated(qry.start, qry.end)

Offered(label) == {b \in qry.buttons : b.label = label}

\* C32: a page that is not empty, at offset o of t results, offers Anterior exactly
\* when o > 0, leading to max(0, o - 5), and Siguiente exactly when o + 5 < t, leading
\* to o + 5, and every offset offered is one of 0 .. t - 1; and once a walk that began
\* at offset 0 and followed Siguiente is offered no Siguiente, it has shown each result
\* of the unchanged store exactly once
C32_Pagination ==
    (qry.pc = "done" /\ (qry.start = "" \/ ValidDate(qry.start))) =>
        /\ qry.rows # <<>> =>
              /\ Offered("Anterior") # {} <=> qry.offset > 0
              /\ \A b \in Offered("Anterior") :
                    b.target = IF qry.offset - 5 < 0 THEN 0 ELSE qry.offset - 5
              /\ Offered("Siguiente") # {} <=> qry.offset + 5 < qry.total
              /\ \A b \in Offered("Siguiente") : b.target = qry.offset + 5
              /\ \A b \in qry.buttons : b.target \in 0..(qry.total - 1)
        /\ (qry.chain /\ Offered("Siguiente") = {}) =>
              /\ Len(qry.seen) = Cardinality(Results(qry.day))
              /\ \A i \in Results(qry.day) : \E k \in 1..Len(qry.seen) : qry.seen[k] = events[i].id

====
